---- MODULE Spec2Model ----
(***************************************************************************)
(* A model of nicecmd (github.com/mologie/nicecmd): configuration binding  *)
(* for Cobra commands.  Strings are TLA+ strings; a rune is a string of    *)
(* length one.                                                             *)
(***************************************************************************)
EXTENDS Integers, Sequences, FiniteSets, TLC

VARIABLES
    slugIn,     \* name derivation: the identifier last passed to slug
    slugSep,    \* name derivation: the separator last passed to slug
    slugOut,    \* name derivation: what slug returned
    slugPc,     \* name derivation: "ready" before the call, "done" after it
    typeRegs,   \* the type registry: registered type -> its typeReg
    regLast,    \* per type, the last registry call made for it (history)
    regOps,     \* the number of registry calls made so far
    config,     \* the config struct passed to BindConfig
    bindPrefix, \* the prefix given to WithEnvPrefix ("" without the option)
    command,    \* the command BindConfig binds the config to
    bindPc,     \* binding: "setup" before BindConfig, "bound" after it, "late" once
                \* the registry was called after it
    Environment,\* the package variable Environment
    cmds,       \* execution: the commands, the root first and then its sub-command
    environ,    \* execution: the process environment, name -> value
    args,       \* execution: the command line: [leaf, flags]
    pc,         \* execution: the stage of Execute that runs next: [step, cmd, k]
    err,        \* execution: the error Execute returns
    trace       \* execution: the stages run so far with what they returned (history)

slugVars == <<slugIn, slugSep, slugOut, slugPc>>

bindVars == <<typeRegs, regLast, regOps, config, bindPrefix, command, bindPc, Environment>>

execVars == <<cmds, environ, args, pc, err, trace>>

vars == <<slugIn, slugSep, slugOut, slugPc,
          typeRegs, regLast, regOps, config, bindPrefix, command, bindPc, Environment,
          cmds, environ, args, pc, err, trace>>

(***************************************************************************)
(* Runes and their unicode classes (the ASCII part the model draws from).  *)
(***************************************************************************)
UpperRunes == {"A","B","C","D","E","F","G","H","I","J","K","L","M",
               "N","O","P","Q","R","S","T","U","V","W","X","Y","Z"}

LowerRunes == {"a","b","c","d","e","f","g","h","i","j","k","l","m",
               "n","o","p","q","r","s","t","u","v","w","x","y","z"}

\* runes for which !IsPrint(r) || IsPunct(r) || IsSpace(r) holds
PunctRunes == {"-", "_", ".", " "}

IsUpper(r) == r \in UpperRunes

IsLower(r) == r \in LowerRunes

IsPunctOrSpace(r) == r \in PunctRunes

UpperSeq == "ABCDEFGHIJKLMNOPQRSTUVWXYZ"

LowerSeq == "abcdefghijklmnopqrstuvwxyz"

RuneAt(s, k) == SubSeq(s, k, k)

IndexIn(alphabet, r) == CHOOSE k \in 1..Len(alphabet) : RuneAt(alphabet, k) = r

\* unicode.ToLower on one rune
ToLowerRune(r) == IF IsUpper(r) THEN RuneAt(LowerSeq, IndexIn(UpperSeq, r)) ELSE r

\* unicode.ToUpper on one rune
ToUpperRune(r) == IF IsLower(r) THEN RuneAt(UpperSeq, IndexIn(LowerSeq, r)) ELSE r

RECURSIVE ToUpper(_)
\* strings.ToUpper
ToUpper(s) == IF s = "" THEN "" ELSE ToUpperRune(Head(s)) \o ToUpper(Tail(s))

(***************************************************************************)
(* slug and screamingSnake.                                                *)
(***************************************************************************)
\* slugWritesSep without the look-ahead at the next rune
slugWritesSepNoLookahead(runes, k, state, s) ==
    /\ Len(s) > 0
    /\ state # "start"

\* slugWritesSep that does not ask whether anything was written yet
slugWritesSepAlsoFirst(runes, k, state, s) ==
    \/ state # "start"
    \/ /\ k > 1
       /\ k < Len(runes)
       /\ IsLower(RuneAt(runes, k + 1))

\* the condition under which slug writes the separator before rune k
\* (k counts from 1, the code's i from 0)
slugWritesSep(runes, k, state, s) ==
    /\ Len(s) > 0
    /\ \/ state # "start"
       \/ /\ k > 1
          /\ k < Len(runes)
          /\ IsLower(RuneAt(runes, k + 1))

RECURSIVE slugLoop(_, _, _, _, _)
\* the loop of slug from rune k on, in state `state` with `s` written so far
slugLoop(runes, sep, k, state, s) ==
    IF k > Len(runes) THEN s
    ELSE LET r == RuneAt(runes, k) IN
         IF IsPunctOrSpace(r)
         THEN slugLoop(runes, sep, k + 1, "punct", s)
         ELSE IF state = "punct" \/ IsUpper(r)
         THEN slugLoop(runes, sep, k + 1, "start",
                       (IF slugWritesSep(runes, k, state, s) THEN s \o sep ELSE s)
                           \o ToLowerRune(r))
         ELSE slugLoop(runes, sep, k + 1, "word", s \o r)

slug(in, sep) == slugLoop(in, sep, 1, "start", "")

screamingSnake(in) == ToUpper(slug(in, "_"))

(***************************************************************************)
(* Strings helpers of the standard library.                                *)
(***************************************************************************)
RECURSIVE IndexRune(_, _, _)
\* strings.IndexRune from position k on; 0 when r does not occur
IndexRune(s, r, k) ==
    IF k > Len(s) THEN 0
    ELSE IF RuneAt(s, k) = r THEN k
    ELSE IndexRune(s, r, k + 1)

\* strings.Cut: <<before, after, found>>
Cut(s, r) ==
    LET k == IndexRune(s, r, 1)
    IN  IF k = 0 THEN <<s, "", FALSE>>
        ELSE <<SubSeq(s, 1, k - 1), SubSeq(s, k + 1, Len(s)), TRUE>>

RECURSIVE Split(_, _)
\* strings.Split
Split(s, r) ==
    LET c == Cut(s, r)
    IN  IF c[3] THEN <<c[1]>> \o Split(c[2], r) ELSE <<s>>

\* strings.HasPrefix
HasPrefix(s, prefix) ==
    Len(prefix) <= Len(s) /\ SubSeq(s, 1, Len(prefix)) = prefix

\* strings.HasSuffix
HasSuffix(s, suffix) ==
    Len(suffix) <= Len(s) /\ SubSeq(s, Len(s) - Len(suffix) + 1, Len(s)) = suffix

\* slices.Contains
Contains(seq, x) == \E k \in DOMAIN seq : seq[k] = x

RECURSIVE JoinWith(_, _)
\* strings.Join
JoinWith(parts, sep) ==
    IF parts = << >> THEN ""
    ELSE IF Len(parts) = 1 THEN parts[1]
    ELSE parts[1] \o sep \o JoinWith(Tail(parts), sep)

(***************************************************************************)
(* Field types.  A config field is a record                                *)
(*   [name, type, flag, param, env, encoding, usage, def, sub]             *)
(* of its Go name, its type, its struct tags, its default (as the flag     *)
(* prints it) and, for a struct, its fields.                               *)
(***************************************************************************)
optPersistent == "persistent"

optRequired == "required"

encodingBase64 == "base64"

encodingCSV == "csv"

encodingCount == "count"

encodingHex == "hex"

encodingRaw == "raw"

\* the types of the type switch of recurseStruct that the configs here use
BuiltinTypes ==
    {"bool", "[]byte", "int", "string", "[]string", "time.Duration", "net.IP", "net.IPNet"}

\* types whose pointer implements pflag.Value
ValueTypes == {"thirdPartyFlag", "pflagValue", "valueText"}

\* types whose pointer implements encoding.TextUnmarshaler and TextMarshaler
TextTypes == {"textValue", "valueText", "net.IP"}

\* types of kind reflect.Struct with a fixed number of fields; a field of type
\* "struct" is a struct whose fields the config gives in sub
NamedStructFields == [t \in {"pflagValue", "textValue", "net.IPNet"} |->
                         IF t = "net.IPNet" THEN 2 ELSE 1]

Types == BuiltinTypes \cup ValueTypes \cup TextTypes \cup {"stringAlias", "struct"}

IsStructKind(field) == field.type = "struct" \/ field.type \in DOMAIN NamedStructFields

NumField(field) ==
    IF field.type = "struct" THEN Len(field.sub)
    ELSE IF field.type \in DOMAIN NamedStructFields THEN NamedStructFields[field.type]
    ELSE 0

(***************************************************************************)
(* The type registry.  typeRegs maps a registered type to its typeReg, of  *)
(* which the model keeps the name and which parser was registered.         *)
(***************************************************************************)
NoRegs == << >>

\* RegisterType[T](parse, serialize)
RegisterTypeIn(regs, t, parser) ==
    [u \in (DOMAIN regs) \cup {t} |->
        IF u = t THEN [Name |-> t, Parser |-> parser] ELSE regs[u]]

\* UnregisterType[T]()
UnregisterTypeIn(regs, t) == [u \in (DOMAIN regs) \ {t} |-> regs[u]]

\* the error of the registered parse function: the cust and plain functions of
\* the tests take every value, the strict one takes on and off only
parserError(parser, s) ==
    IF parser = "strict" /\ s \notin {"on", "off"} THEN "neither on nor off" ELSE ""

\* the registered serialize function: the tests' conversion to string, and the
\* strict pair's upper-case form
applySerializer(parser, v) == IF parser = "strict" THEN ToUpper(v) ELSE v

(***************************************************************************)
(* getFieldTags.  A result with panic # "" stands for the panic.           *)
(***************************************************************************)
\* paramTag that takes a single character in the name slot for a long name
paramTagNoShortForm(paramPrefix, field) ==
    LET cut == Cut(field.param, ",")
    IN  [name   |-> IF cut[1] = "" THEN paramPrefix \o slug(field.name, "-")
                    ELSE paramPrefix \o cut[1],
         abbrev |-> cut[2],
         panic  |-> IF Len(cut[2]) > 1 THEN "must be a single character" ELSE ""]

\* the param tag of getFieldTags: [name, abbrev, panic]
paramTag(paramPrefix, field) ==
    LET cut     == Cut(field.param, ",")
        oneChar == Len(cut[1]) = 1
        abbrev  == IF oneChar THEN cut[1] ELSE cut[2]
        name0   == IF oneChar THEN "" ELSE cut[1]
    IN  [name   |-> IF name0 = "" THEN paramPrefix \o slug(field.name, "-")
                    ELSE paramPrefix \o name0,
         abbrev |-> abbrev,
         panic  |-> IF oneChar /\ cut[2] # "" THEN "must be at least two characters"
                    ELSE IF Len(abbrev) > 1 THEN "must be a single character"
                    ELSE ""]

\* envTag that puts the env prefix before an explicit name too
envTagPrefixed(envPrefix, field) ==
    [env   |-> IF field.env = "-" THEN "-"
               ELSE IF envPrefix = "" /\ field.env = "" THEN "-"
               ELSE envPrefix \o (IF field.env = "" THEN screamingSnake(field.name)
                                  ELSE field.env),
     panic |-> IF field.env # "" /\ field.env # "-" /\ field.env # screamingSnake(field.env)
               THEN "must be in SCREAMING_SNAKE_CASE"
               ELSE ""]

\* the env tag of getFieldTags: [env, panic]
envTag(envPrefix, field) ==
    [env   |-> IF field.env = ""
               THEN IF envPrefix = "" THEN "-"
                    ELSE envPrefix \o screamingSnake(field.name)
               ELSE field.env,
     panic |-> IF field.env # "" /\ field.env # "-" /\ field.env # screamingSnake(field.env)
               THEN "must be in SCREAMING_SNAKE_CASE"
               ELSE ""]

getFieldTags(paramPrefix, envPrefix, field) ==
    LET param == paramTag(paramPrefix, field)
        env   == envTag(envPrefix, field)
    IN  [opts     |-> Split(field.flag, ","),
         encoding |-> field.encoding,
         name     |-> param.name,
         abbrev   |-> param.abbrev,
         env      |-> env.env,
         usage    |-> field.usage,
         panic    |-> IF param.panic # "" THEN param.panic ELSE env.panic]

\* fieldTags.hasOption
hasOption(tags, name) == Contains(tags.opts, name)

\* fieldTags.Opts
Opts(tags) ==
    [persistent |-> hasOption(tags, optPersistent),
     required   |-> hasOption(tags, optRequired)]

\* Or that keeps the field's own options only
OrOwnOnly(opts, other) == opts

\* fieldOpts.Or
Or(opts, other) ==
    [persistent |-> opts.persistent \/ other.persistent,
     required   |-> opts.required \/ other.required]

\* HasEnv that takes every env name for suppressed
HasEnvNever(tags) == FALSE

\* fieldTags.HasEnv
HasEnv(tags) == tags.env # "-"

\* the zero fieldOpts{}
NoOpts == [persistent |-> FALSE, required |-> FALSE]

(***************************************************************************)
(* A command is a record [use, flags, pflags, annEnv, panic, chain,        *)
(* sortFlags, helpFunc, usageFunc]: its flag set cmd.Flags() and its       *)
(* persistent flag set, both in the order of registration, its annotation  *)
(* nicecmd_env ("" when absent), the message of the panic that aborted its *)
(* construction ("" when none), SortFlags of its flag sets and the help    *)
(* and usage functions set on it ("" for Cobra's own).                     *)
(***************************************************************************)
\* useCustomValue: whether the registry holds the field's type
useCustomValue(field, regs) == field.type \in DOMAIN regs

\* whether the type switch reaches its default branch, where the registry is asked
reachesRegistry(field) == field.type \notin BuiltinTypes

\* fmt's %q of a string of printable ASCII without quotes and backslashes
Quoted(s) == "\"" \o s \o "\""

\* the panic message about an encoding that the type of the field does not take
expectedEncoding(what, tags) ==
    "expected " \o what \o " " \o Quoted(tags.name) \o ", got encoding "
        \o Quoted(tags.encoding)

\* the panic message about a field that no strategy binds; %T prints the type
\* of the pointer to the field
unsupportedFieldType(field) == "unsupported field type *" \o field.type

\* bindStrategy that takes a byte slice without encoding as base64 and does not
\* look at the encoding of an int or a string slice
bindStrategyAnyEncoding(field, tags, regs) ==
    IF ~reachesRegistry(field) THEN [strategy |-> "builtin", panic |-> ""]
    ELSE IF useCustomValue(field, regs) THEN [strategy |-> "custom", panic |-> ""]
    ELSE IF field.type \in ValueTypes THEN [strategy |-> "pflag", panic |-> ""]
    ELSE IF field.type \in TextTypes THEN [strategy |-> "text", panic |-> ""]
    ELSE IF IsStructKind(field) /\ NumField(field) > 0
    THEN [strategy |-> "recurse", panic |-> ""]
    ELSE [strategy |-> "none", panic |-> unsupportedFieldType(field)]

\* bindStrategy that walks a struct without fields, binding nothing for it
bindStrategyEmptyStruct(field, tags, regs) ==
    IF ~reachesRegistry(field) THEN [strategy |-> "builtin", panic |-> ""]
    ELSE IF useCustomValue(field, regs) THEN [strategy |-> "custom", panic |-> ""]
    ELSE IF field.type \in ValueTypes THEN [strategy |-> "pflag", panic |-> ""]
    ELSE IF field.type \in TextTypes THEN [strategy |-> "text", panic |-> ""]
    ELSE IF IsStructKind(field) THEN [strategy |-> "recurse", panic |-> ""]
    ELSE [strategy |-> "none", panic |-> unsupportedFieldType(field)]

\* bindStrategy that asks for pflag.Value before it asks the registry
bindStrategyValueFirst(field, tags, regs) ==
    IF field.type \in BuiltinTypes THEN [strategy |-> "builtin", panic |-> ""]
    ELSE IF field.type \in ValueTypes THEN [strategy |-> "pflag", panic |-> ""]
    ELSE IF useCustomValue(field, regs) THEN [strategy |-> "custom", panic |-> ""]
    ELSE IF field.type \in TextTypes THEN [strategy |-> "text", panic |-> ""]
    ELSE IF IsStructKind(field) /\ NumField(field) > 0
    THEN [strategy |-> "recurse", panic |-> ""]
    ELSE [strategy |-> "none", panic |-> unsupportedFieldType(field)]

\* the binding strategy recurseStruct chooses for a field: [strategy, panic]
bindStrategy(field, tags, regs) ==
    LET builtin == [strategy |-> "builtin", panic |-> ""]
        failed(msg) == [strategy |-> "none", panic |-> msg]
    IN  IF ~reachesRegistry(field)
        THEN CASE field.type = "[]byte" ->
                    IF tags.encoding \in {encodingBase64, encodingHex} THEN builtin
                    ELSE failed(expectedEncoding(
                             "encoding:\"base64\" or encoding:\"hex\" for bytes slice", tags))
               [] field.type = "int" ->
                    IF tags.encoding = "" THEN builtin
                    ELSE IF tags.encoding = encodingCount
                    THEN IF HasEnv(tags) THEN failed("count encoding requires env:-")
                         ELSE builtin
                    ELSE failed(expectedEncoding(
                             "no encoding or encoding:\"count\" for int", tags))
               [] field.type = "[]string" ->
                    IF tags.encoding \in {"", encodingCSV} THEN builtin
                    ELSE IF tags.encoding = encodingRaw
                    THEN IF HasEnv(tags) THEN failed("encoding raw requires env:-")
                         ELSE builtin
                    ELSE failed(expectedEncoding(
                             "encoding:\"csv\" or encoding:\"raw\" for string slice", tags))
               [] OTHER -> builtin
        ELSE IF useCustomValue(field, regs)
        THEN [strategy |-> "custom", panic |-> ""]
        ELSE IF field.type \in ValueTypes
        THEN [strategy |-> "pflag", panic |-> ""]
        ELSE IF field.type \in TextTypes
        THEN [strategy |-> "text", panic |-> ""]
        ELSE IF IsStructKind(field) /\ NumField(field) > 0
        THEN [strategy |-> "recurse", panic |-> ""]
        ELSE failed(unsupportedFieldType(field))

\* the pflag.Flag a field is registered as, with the required mark and the env
\* annotation recurseStruct puts on it; envSets counts the calls of Value.Set
\* that applyEnvToFlag makes for the flag (history)
newFlag(field, tags, opts, strategy, regs, path) ==
    [name       |-> tags.name,
     abbrev     |-> tags.abbrev,
     usage      |-> IF opts.required
                    THEN (IF tags.usage # "" THEN tags.usage \o " " ELSE "") \o "(required)"
                    ELSE tags.usage,
     env        |-> IF HasEnv(tags) THEN <<tags.env>> ELSE << >>,
     required   |-> opts.required,
     persistent |-> opts.persistent,
     strategy   |-> strategy,
     type       |-> field.type,
     encoding   |-> tags.encoding,
     parser     |-> IF strategy = "custom" THEN regs[field.type].Parser ELSE "",
     path       |-> path,
     defValue   |-> IF strategy = "custom"
                    THEN applySerializer(regs[field.type].Parser, field.def)
                    ELSE field.def,
     value      |-> field.def,
     changed    |-> FALSE,
     processed  |-> FALSE,
     annUsage   |-> << >>,
     envSets    |-> 0]

\* FlagSet.VarP and its like: pflag panics when the name or the shorthand is taken
addFlag(cmd, flag) ==
    LET fs == IF flag.persistent THEN cmd.pflags ELSE cmd.flags
    IN  IF \E k \in DOMAIN fs : fs[k].name = flag.name
        THEN [cmd EXCEPT !.panic = "flag redefined"]
        ELSE IF flag.abbrev # "" /\ \E k \in DOMAIN fs : fs[k].abbrev = flag.abbrev
        THEN [cmd EXCEPT !.panic = "unable to redefine shorthand"]
        ELSE IF flag.persistent
        THEN [cmd EXCEPT !.pflags = Append(@, flag)]
        ELSE [cmd EXCEPT !.flags = Append(@, flag)]

\* nextEnv that takes the env name of the struct field whatever it is
nextEnvOfSuppressed(tags) == tags.env \o "_"

\* nextEnv without the underscore after the struct field's name
nextEnvUnseparated(tags) == IF HasEnv(tags) THEN tags.env ELSE ""

\* the env prefix recurseStruct passes to the fields of a struct field
nextEnv(tags) == IF HasEnv(tags) THEN tags.env \o "_" ELSE ""

RECURSIVE recurseStruct(_, _, _, _, _, _, _)
RECURSIVE recurseFields(_, _, _, _, _, _, _, _)
\* the loop of recurseStruct from field i on; path leads to struct_
recurseFields(struct_, i, cmd, paramPrefix, envPrefix, parentOpts, regs, path) ==
    IF cmd.panic # "" \/ i > Len(struct_) THEN cmd
    ELSE LET field == struct_[i]
             tags  == getFieldTags(paramPrefix, envPrefix, field)
             opts  == Or(Opts(tags), parentOpts)
             how   == bindStrategy(field, tags, regs)
         IN  IF tags.panic # "" THEN [cmd EXCEPT !.panic = tags.panic]
             ELSE IF how.panic # "" THEN [cmd EXCEPT !.panic = how.panic]
             ELSE IF how.strategy = "recurse"
             THEN recurseFields(struct_, i + 1,
                      recurseStruct(field.sub, cmd, tags.name \o "-", nextEnv(tags),
                                    opts, regs, Append(path, i)),
                      paramPrefix, envPrefix, parentOpts, regs, path)
             ELSE recurseFields(struct_, i + 1,
                      addFlag(cmd, newFlag(field, tags, opts, how.strategy, regs,
                                           Append(path, i))),
                      paramPrefix, envPrefix, parentOpts, regs, path)

recurseStruct(struct_, cmd, paramPrefix, envPrefix, parentOpts, regs, path) ==
    recurseFields(struct_, 1, cmd, paramPrefix, envPrefix, parentOpts, regs, path)

\* WithEnvPrefix(prefix): the EnvPrefix the option configures, or its panic
WithEnvPrefix(prefix) ==
    [EnvPrefix |-> prefix \o "_",
     panic     |-> IF prefix = "" THEN "env prefix must not be empty"
                   ELSE IF ToUpper(prefix) # prefix THEN "env prefix must be all uppercase"
                   ELSE IF HasSuffix(prefix, "_")
                   THEN "env prefix must not end with an underscore"
                   ELSE ""]

\* a cobra.Command before any flag is added to it; use is its Use line and chain
\* the hooks its PersistentPreRunE runs, outermost first
NewCommand ==
    [use |-> "", flags |-> << >>, pflags |-> << >>, annEnv |-> "", panic |-> "",
     chain |-> << >>, sortFlags |-> TRUE, helpFunc |-> "", usageFunc |-> ""]

\* BindConfig(cmd, &cfg, opts...) with the EnvPrefix the options configure
BindConfig(cmd, cfg, envPrefix, regs) ==
    recurseStruct(cfg, [cmd EXCEPT !.annEnv = IF envPrefix # "" THEN envPrefix ELSE @],
                  "", envPrefix, NoOpts, regs, << >>)

(***************************************************************************)
(* Setting a flag from a string: pflag's Value.Set of the bound value.     *)
(* A result is [err, value]: the error ("" when none) and the value the    *)
(* field then prints as; intValue.Set and boolValue.Set store the zero     *)
(* value that the failed parse returned.                                   *)
(***************************************************************************)
DigitSeq == "0123456789"

IsDigit(r) == \E k \in 1..Len(DigitSeq) : RuneAt(DigitSeq, k) = r

DigitValue(r) == IndexIn(DigitSeq, r) - 1

RECURSIVE DigitsValue(_, _, _)
\* the number the digits of s denote in the base, -1 when a rune is no digit of it
DigitsValue(s, base, acc) ==
    IF s = "" THEN acc
    ELSE LET r == RuneAt(s, 1)
         IN  IF ~IsDigit(r) \/ DigitValue(r) >= base THEN -1
             ELSE DigitsValue(Tail(s), base, acc * base + DigitValue(r))

RECURSIVE Itoa(_)
\* strconv.Itoa of a natural number
Itoa(n) ==
    IF n < 10 THEN RuneAt(DigitSeq, n + 1)
    ELSE Itoa(n \div 10) \o RuneAt(DigitSeq, (n % 10) + 1)

\* strconv.ParseInt(s, 0, 64) on an optional sign and digits, a leading 0 reading
\* the rest as octal: [ok, text], text what the parsed number prints as
ParseInt(s) ==
    LET signed == s # "" /\ RuneAt(s, 1) \in {"+", "-"}
        digits == IF signed THEN Tail(s) ELSE s
        octal  == Len(digits) > 1 /\ RuneAt(digits, 1) = "0"
        n      == IF digits = "" THEN -1
                  ELSE IF octal THEN DigitsValue(Tail(digits), 8, 0)
                  ELSE DigitsValue(digits, 10, 0)
    IN  IF n < 0 THEN [ok |-> FALSE, text |-> ""]
        ELSE [ok |-> TRUE,
              text |-> (IF signed /\ RuneAt(s, 1) = "-" /\ n > 0 THEN "-" ELSE "") \o Itoa(n)]

\* strconv.ParseBool
ParseBool(s) ==
    IF s \in {"1", "t", "T", "TRUE", "true", "True"} THEN [ok |-> TRUE, text |-> "true"]
    ELSE IF s \in {"0", "f", "F", "FALSE", "false", "False"} THEN [ok |-> TRUE, text |-> "false"]
    ELSE [ok |-> FALSE, text |-> ""]

\* the parse functions the tests register: value + "-cust" and the plain conversion
applyParser(parser, s) == IF parser = "cust" THEN s \o "-cust" ELSE s

\* typeWrap.Set that asks the registry of the moment for the parse function
typeWrapSetFromRegistry(flag, s) ==
    LET parser == IF flag.type \in DOMAIN typeRegs THEN typeRegs[flag.type].Parser
                  ELSE flag.parser
    IN  IF parserError(parser, s) # ""
        THEN [err |-> parserError(parser, s), value |-> flag.value]
        ELSE [err |-> "", value |-> applyParser(parser, s)]

\* typeWrap.Set: the parse function of the reg it holds, whose error it returns
\* without a write to the field
typeWrapSet(flag, s) ==
    IF parserError(flag.parser, s) # ""
    THEN [err |-> parserError(flag.parser, s), value |-> flag.value]
    ELSE [err |-> "", value |-> applyParser(flag.parser, s)]

\* typeWrap.String: the serialize function of the reg it holds
typeWrapString(flag) == applySerializer(flag.parser, flag.value)

\* the types whose Set is modelled
SettableTypes ==
    {"bool", "int", "string", "thirdPartyFlag", "pflagValue", "valueText", "textValue",
     "stringAlias"}

\* flag.Value.Set(s)
valueSet(flag, s) ==
    LET parsed(res, zero) ==
            IF res.ok THEN [err |-> "", value |-> res.text]
            ELSE [err |-> "invalid syntax", value |-> zero]
    IN  CASE flag.strategy = "custom" -> typeWrapSet(flag, s)
          [] flag.strategy = "pflag" ->
                 [err |-> "", value |-> IF flag.type = "thirdPartyFlag" THEN s \o "-pflag" ELSE s]
          [] flag.strategy = "text" -> [err |-> "", value |-> s]
          [] flag.type = "int" -> parsed(ParseInt(s), "0")
          [] flag.type = "bool" -> parsed(ParseBool(s), "false")
          [] flag.type = "stringArray" ->
                 [err |-> "",
                  value |-> IF flag.changed
                            THEN SubSeq(flag.value, 1, Len(flag.value) - 1) \o "," \o s \o "]"
                            ELSE "[" \o s \o "]"]
          [] OTHER -> [err |-> "", value |-> s]

\* FlagSet.Set(name, s) on the flag: the flag is marked changed unless Set fails
flagSet(flag, s) ==
    LET res == valueSet(flag, s)
    IN  IF res.err # "" THEN [flag EXCEPT !.value = res.value]
        ELSE [flag EXCEPT !.value = res.value, !.changed = TRUE]

(***************************************************************************)
(* Commands: RootCommand, SubCommand and opinionatedBindConfig.            *)
(***************************************************************************)
\* cobra's Command.Name(): the first word of the Use line
Name(cmd) == Cut(cmd.use, " ")[1]

\* a flag added to a flag set directly, such as env-lax
plainFlag(name, type, def, usage) ==
    [name       |-> name,
     abbrev     |-> "",
     usage      |-> usage,
     env        |-> << >>,
     required   |-> FALSE,
     persistent |-> TRUE,
     strategy   |-> "builtin",
     type       |-> type,
     encoding   |-> "",
     parser     |-> "",
     path       |-> << >>,
     defValue   |-> def,
     value      |-> def,
     changed    |-> FALSE,
     processed  |-> FALSE,
     annUsage   |-> << >>,
     envSets    |-> 0]

\* the env prefix derived from the names of the parents alone
envPrefixOfFullCommand(parents, cmd) ==
    LET names == [k \in DOMAIN parents |-> Name(parents[k])]
    IN  screamingSnake(JoinWith(Append(names, Name(cmd)), " "))

\* the env prefix opinionatedBindConfig derives for cmd: the parent's annotation
\* extended by the command's name, the full command without such an annotation
envPrefixOf(parents, cmd) ==
    IF parents = << >> THEN screamingSnake(Name(cmd))
    ELSE IF parents[Len(parents)].annEnv # ""
    THEN parents[Len(parents)].annEnv \o screamingSnake(Name(cmd))
    ELSE envPrefixOfFullCommand(parents, cmd)

\* a command whose flag sets keep pflag's default, SortFlags = true
keepSortFlags(cmd) == cmd

\* cmd.Flags().SortFlags = false and cmd.PersistentFlags().SortFlags = false
disableSortFlags(cmd) == [cmd EXCEPT !.sortFlags = FALSE]

\* opinionatedBindConfig: parents are the ancestors of cmd, the root first;
\* userPrefix is the prefix of a WithEnvPrefix option of the caller, "" without
\* (the caller evaluates its option, which may panic, before the call);
\* environment is the value of Environment at the call
opinionatedBindConfig(parents, cmd, cfg, userPrefix, regs, environment) ==
    LET derived == WithEnvPrefix(envPrefixOf(parents, cmd))
        given   == WithEnvPrefix(userPrefix)
    IN  IF userPrefix # "" /\ given.panic # "" THEN [cmd EXCEPT !.panic = given.panic]
        ELSE IF cmd.use = "" THEN [cmd EXCEPT !.panic = "use line must be set"]
        ELSE IF environment /\ derived.panic # "" THEN [cmd EXCEPT !.panic = derived.panic]
        ELSE BindConfig(disableSortFlags(cmd), cfg,
                        IF userPrefix # "" THEN given.EnvPrefix
                        ELSE IF environment THEN derived.EnvPrefix
                        ELSE "",
                        regs)

\* the hooks a command's PersistentPreRunE runs; the user's hook is the innermost
hookChain(wrappers, hasSetup) == wrappers \o (IF hasSetup THEN <<"user">> ELSE << >>)

\* rootWrappers with the audit wrapped around the user's hook before the env hook
rootWrappersResolveFirst(environment) ==
    IF environment THEN <<"applyDotEnv", "applyEnvToCmd", "checkEnv">> ELSE << >>

\* the hooks RootCommand wraps around the user's hook, the outermost first
rootWrappers(environment) ==
    IF environment THEN <<"applyDotEnv", "checkEnv", "applyEnvToCmd">> ELSE << >>

\* subWrappers that wraps the env hook whatever Environment is
subWrappersAlways(environment) == <<"applyEnvToCmd">>

\* the hook SubCommand wraps around the user's hook
subWrappers(environment) == IF environment THEN <<"applyEnvToCmd">> ELSE << >>

\* RootCommand(Hooks{PersistentPreRun: setup, Run: run}, cobra.Command{Use: use}, cfg, opts...)
RootCommand(use, cfg, userPrefix, hasSetup, regs, environment) ==
    LET c0 == [NewCommand EXCEPT
                  !.use = use,
                  !.chain = hookChain(rootWrappers(environment), hasSetup)]
        c1 == addFlag(c0, plainFlag("env-file", "stringArray", "[]",
                                    "load dotenv file (repeat for multiple files)"))
        c2 == addFlag(c1, plainFlag("env-overwrite", "bool", "false",
                                    "give precedence to dotenv environment variables"))
        c3 == addFlag(c2, plainFlag("env-lax", "bool", "false",
                                    "ignore unbound environment variables"))
    IN  opinionatedBindConfig(<< >>,
            IF environment
            THEN [c3 EXCEPT !.helpFunc = "applyEnvToHelp", !.usageFunc = "applyEnvToUsage"]
            ELSE c0,
            cfg, userPrefix, regs, environment)

\* SubCommand(parent, hooks, cobra.Command{Use: use}, cfg, opts...)
SubCommand(parents, use, cfg, userPrefix, hasSetup, regs, environment) ==
    IF parents = << >> THEN [NewCommand EXCEPT !.panic = "parent command must not be nil"]
    ELSE opinionatedBindConfig(parents,
             [NewCommand EXCEPT !.use = use,
                                !.chain = hookChain(subWrappers(environment), hasSetup)],
             cfg, userPrefix, regs, environment)

(***************************************************************************)
(* Flag parsing of Execute.                                                *)
(***************************************************************************)
NoError == [kind |-> "none"]

\* cmd.LocalFlags(): the flags of the command and its own persistent flags, in
\* the order they were added (SortFlags is off)
LocalFlags(cmd) == cmd.flags \o cmd.pflags

\* LocalFlags put back into the command
WithLocalFlags(cmd, flags) ==
    [cmd EXCEPT !.flags = SubSeq(flags, 1, Len(cmd.flags)),
                !.pflags = SubSeq(flags, Len(cmd.flags) + 1, Len(flags))]

\* lookupFlag that finds the first flag of the command under every name
lookupFlagFirst(cmd, name) == IF LocalFlags(cmd) # << >> THEN 1 ELSE 0

\* FlagSet.Lookup on the local flags: the index of the flag, 0 when there is none
lookupFlag(cmd, name) ==
    LET flags == LocalFlags(cmd)
    IN  IF \E k \in DOMAIN flags : flags[k].name = name
        THEN CHOOSE k \in DOMAIN flags : flags[k].name = name
        ELSE 0

RECURSIVE parseArgs(_, _, _)
\* ParseFlags along the command path, from argument k on: [cmds, err]; the first
\* argument that fails ends the parse
parseArgs(commands, flagArgs, k) ==
    IF k > Len(flagArgs) THEN [cmds |-> commands, err |-> NoError]
    ELSE LET arg   == flagArgs[k]
             cmd   == commands[arg.cmd]
             index == lookupFlag(cmd, arg.name)
             flags == LocalFlags(cmd)
         IN  IF index = 0
             THEN [cmds |-> commands,
                   err |-> [kind |-> "flag", msg |-> "unknown flag: --" \o arg.name]]
             ELSE LET res  == valueSet(flags[index], arg.value)
                      next == [commands EXCEPT ![arg.cmd] =
                                  WithLocalFlags(cmd,
                                      [flags EXCEPT ![index] = flagSet(@, arg.value)])]
                  IN  IF res.err # ""
                      THEN [cmds |-> next,
                            err |-> [kind |-> "flag",
                                     msg |-> "invalid argument for --" \o arg.name]]
                      ELSE parseArgs(next, flagArgs, k + 1)

(***************************************************************************)
(* Environment resolution: applyEnvToFlag and applyEnvToCmd.               *)
(***************************************************************************)
\* os.LookupEnv that takes an empty value for an unset variable
LookupEnvNonEmpty(env, name) ==
    IF name \in DOMAIN env /\ env[name] # "" THEN [ok |-> TRUE, value |-> env[name]]
    ELSE [ok |-> FALSE, value |-> ""]

\* os.LookupEnv
LookupEnv(env, name) ==
    IF name \in DOMAIN env THEN [ok |-> TRUE, value |-> env[name]]
    ELSE [ok |-> FALSE, value |-> ""]

\* spaceAppend
spaceAppend(s, suffix) == IF Len(s) > 0 THEN s \o " " \o suffix ELSE suffix

\* the usage suffix for a variable that is set; the escape character is written \033
envUsageSet(ansiColor, name, value) ==
    "(\\033[" \o ansiColor \o "menv " \o name \o "=\"" \o value \o "\"\\033[0m)"

\* alreadyProcessed that never finds the annotation
alreadyProcessedNever(flag) == FALSE

\* whether the flag carries the annotation nicecmd_processed
alreadyProcessed(flag) == flag.processed

\* setFromEnv that marks the flag as changed whatever Set returns
setFromEnvAlwaysChanged(flag, value) ==
    [flag EXCEPT !.value = valueSet(flag, value).value, !.changed = TRUE,
                 !.envSets = @ + 1]

\* flag.Value.Set(value) of applyEnvToFlag and flag.Changed = true when it
\* returns no error
setFromEnv(flag, value) ==
    LET res == valueSet(flag, value)
    IN  IF res.err # "" THEN [flag EXCEPT !.value = res.value, !.envSets = @ + 1]
        ELSE [flag EXCEPT !.value = res.value, !.changed = TRUE, !.envSets = @ + 1]

\* applyEnvToFlag(cmd, errors)(flag): [flag, errors], errors the FlagErrors it appends
applyEnvToFlag(flag, env) ==
    IF alreadyProcessed(flag) THEN [flag |-> flag, errors |-> << >>]
    ELSE LET backedUp == IF Len(flag.usage) # 0
                         THEN [flag EXCEPT !.annUsage = <<flag.usage>>]
                         ELSE flag
             found    == LookupEnv(env, flag.env[1])
             res      == valueSet(backedUp, found.value)
             applied  ==
                 IF flag.env = << >> THEN backedUp
                 ELSE IF ~found.ok
                 THEN [backedUp EXCEPT !.usage = spaceAppend(@, "(env " \o flag.env[1] \o ")"),
                                       !.processed = TRUE]
                 ELSE [setFromEnv(backedUp, found.value) EXCEPT
                          !.usage = spaceAppend(@, envUsageSet(IF res.err # "" THEN "31" ELSE "32",
                                                               flag.env[1], found.value)),
                          !.processed = TRUE]
             failed   == flag.env # << >> /\ found.ok /\ res.err # ""
         IN  [flag   |-> IF applied.required
                         THEN [applied EXCEPT !.usage = spaceAppend(@, "(required)")]
                         ELSE applied,
              errors |-> IF failed THEN <<[Flag |-> flag.name, Error |-> res.err]>>
                         ELSE << >>]

RECURSIVE visitAllUntilError(_, _, _, _)
\* visitAll that stops visiting after the first flag that failed
visitAllUntilError(flags, env, k, errors) ==
    IF k > Len(flags) \/ errors # << >> THEN [flags |-> flags, errors |-> errors]
    ELSE LET res == applyEnvToFlag(flags[k], env)
         IN  visitAllUntilError([flags EXCEPT ![k] = res.flag], env, k + 1,
                                errors \o res.errors)

RECURSIVE visitAll(_, _, _, _)
\* FlagSet.VisitAll(applyEnvToFlag(cmd, &errors)) from flag k on: [flags, errors]
visitAll(flags, env, k, errors) ==
    IF k > Len(flags) THEN [flags |-> flags, errors |-> errors]
    ELSE LET res == applyEnvToFlag(flags[k], env)
         IN  visitAll([flags EXCEPT ![k] = res.flag], env, k + 1, errors \o res.errors)

\* the hook applyEnvToCmd(cmd, next) up to its call of next: [cmd, err]
applyEnvToCmd(cmd, env) ==
    LET res == visitAll(LocalFlags(cmd), env, 1, << >>)
    IN  [cmd |-> WithLocalFlags(cmd, res.flags),
         err |-> IF Len(res.errors) > 0
                 THEN [kind |-> "ErrInvalidEnvironment", FlagErrors |-> res.errors]
                 ELSE NoError]

(***************************************************************************)
(* The audit of unbound variables: checkEnv.                               *)
(***************************************************************************)
\* the order of the bytes that names and values are made of
AsciiSeq == "-./0123456789=ABCDEFGHIJKLMNOPQRSTUVWXYZ_abcdefghijklmnopqrstuvwxyz"

RECURSIVE StrLess(_, _)
\* a < b for Go strings
StrLess(a, b) ==
    IF b = "" THEN FALSE
    ELSE IF a = "" THEN TRUE
    ELSE IF RuneAt(a, 1) = RuneAt(b, 1) THEN StrLess(Tail(a), Tail(b))
    ELSE IndexIn(AsciiSeq, RuneAt(a, 1)) < IndexIn(AsciiSeq, RuneAt(b, 1))

RECURSIVE Sorted(_)
\* slices.Sorted(maps.Keys(set))
Sorted(set) ==
    IF set = {} THEN << >>
    ELSE LET least == CHOOSE x \in set : \A y \in set \ {x} : StrLess(x, y)
         IN  <<least>> \o Sorted(set \ {least})

RECURSIVE sortedFlags(_)
\* pflag's sortFlags: the flags of a flag set in the order of their names
sortedFlags(fs) ==
    IF fs = << >> THEN << >>
    ELSE LET least == CHOOSE k \in DOMAIN fs :
                          \A j \in DOMAIN fs \ {k} : StrLess(fs[k].name, fs[j].name)
         IN  <<fs[least]>> \o
             sortedFlags([j \in 1..(Len(fs) - 1) |-> IF j < least THEN fs[j] ELSE fs[j + 1]])

\* the order in which FlagSet.VisitAll (and so the usage text and the printenv
\* output) goes through a flag set: by name when SortFlags is set, in the order
\* the flags were added otherwise
VisitAllOrder(fs, sortFlags) == IF sortFlags THEN sortedFlags(fs) ELSE fs

\* os.Environ()
Environ(env) == {name \o "=" \o env[name] : name \in DOMAIN env}

\* the env names that the local flags of the command are annotated with
envNames(cmd) ==
    {LocalFlags(cmd)[k].env[1] : k \in {j \in DOMAIN LocalFlags(cmd) : LocalFlags(cmd)[j].env # << >>}}

\* unbound of checkEnv that prunes with the flags of the leaf command only
unboundLeafOnly(commands, leaf, env) ==
    {Cut(e, "=")[1] : e \in {x \in Environ(env) :
                                Cut(x, "=")[3] /\ HasPrefix(Cut(x, "=")[1], commands[1].annEnv)}}
        \ envNames(commands[leaf])

\* the map unbound of checkEnv after pruning: the keys with the root's prefix that
\* no local flag of the leaf command and of its parents is annotated with
unbound(commands, leaf, env) ==
    {Cut(e, "=")[1] : e \in {x \in Environ(env) :
                                Cut(x, "=")[3] /\ HasPrefix(Cut(x, "=")[1], commands[1].annEnv)}}
        \ UNION {envNames(commands[i]) : i \in 1..leaf}

\* rootCmd.Flags().GetBool("env-lax")
envLax(rootCmd) == LocalFlags(rootCmd)[lookupFlag(rootCmd, "env-lax")].value = "true"

\* the hook checkEnv(rootCmd, next) up to its call of next: the error it returns
checkEnv(commands, leaf, env) ==
    IF ~envLax(commands[1]) /\ unbound(commands, leaf, env) # {}
    THEN [kind |-> "ErrUnboundEnvironment", Names |-> Sorted(unbound(commands, leaf, env))]
    ELSE NoError

(***************************************************************************)
(* Dotenv files: applyDotEnv.                                              *)
(***************************************************************************)
\* the dotenv files that exist, with the variables they define
DotEnvFiles ==
    [file \in {".env"} |->
        [name \in {"NICECMD_TEST_FOO", "NICECMD_TEST_SUB_BAR"} |->
            IF name = "NICECMD_TEST_FOO" THEN "foo" ELSE "07"]]

RECURSIVE loadDotEnv(_, _, _, _)
\* godotenv.Load(files...) and, with overload, godotenv.Overload(files...):
\* [env, err]
loadDotEnv(env, files, k, overload) ==
    IF k > Len(files) THEN [env |-> env, err |-> NoError]
    ELSE IF files[k] \notin DOMAIN DotEnvFiles
    THEN [env |-> env, err |-> [kind |-> "dotenv", msg |-> "load dotenv: open " \o files[k]]]
    ELSE LET file == DotEnvFiles[files[k]]
             next == [name \in DOMAIN env \cup DOMAIN file |->
                         IF name \in DOMAIN file /\ (overload \/ name \notin DOMAIN env)
                         THEN file[name] ELSE env[name]]
         IN  loadDotEnv(next, files, k + 1, overload)

\* *files of applyDotEnv: the values the env-file flag was given
envFiles(rootCmd) ==
    LET value == LocalFlags(rootCmd)[lookupFlag(rootCmd, "env-file")].value
    IN  IF value = "[]" THEN << >> ELSE Split(SubSeq(value, 2, Len(value) - 1), ",")

\* loadFunc that is godotenv.Load whatever --env-overwrite is
loadFuncAlwaysLoad(overwrite) == "Load"

\* loadFunc of applyDotEnv: pkgDotEnvOverload with --env-overwrite, else pkgDotEnvLoad
loadFunc(overwrite) == IF overwrite THEN "Overload" ELSE "Load"

\* the hook applyDotEnv(rootCmd, next) up to its call of next: [env, err, call],
\* call the loader it called ("" when it called none)
applyDotEnv(rootCmd, env) ==
    IF Len(envFiles(rootCmd)) # 0
    THEN LET f   == loadFunc(LocalFlags(rootCmd)[lookupFlag(rootCmd, "env-overwrite")].value
                                 = "true")
             res == loadDotEnv(env, envFiles(rootCmd), 1, f = "Overload")
         IN  [env |-> res.env, err |-> res.err, call |-> f]
    ELSE [env |-> env, err |-> NoError, call |-> ""]

(***************************************************************************)
(* Name derivation on its own: slug applied to identifiers.                *)
(***************************************************************************)
MaxSlugLen == 4

SlugAlphabet == {"a", "b", "C", "D", "2", "-", "_", " "}

RECURSIVE StringsUpTo(_, _)
StringsUpTo(alphabet, n) ==
    IF n = 0 THEN {""}
    ELSE LET shorter == StringsUpTo(alphabet, n - 1)
         IN  shorter \cup {s \o r : s \in shorter, r \in alphabet}

\* the identifiers of Test_slug with the results the test wants
SlugTests ==
    << <<"CamelCase", "camel-case">>,
       <<"CamelCamelCase", "camel-camel-case">>,
       <<"Camel2Camel2Case", "camel2-camel2-case">>,
       <<"PathToCSV", "path-to-csv">>,
       <<"CAPath", "ca-path">>,
       <<"EndsInUppeR", "ends-in-uppe-r">>,
       <<"eNdSiNLower", "e-nd-si-n-lower">>,
       <<"ALLUPPER", "allupper">>,
       <<"alllower", "alllower">>,
       <<"firstNotLower", "first-not-lower">>,
       <<"IP", "ip">>,
       <<"IPMask", "ip-mask">> >>

SlugInputs ==
    StringsUpTo(SlugAlphabet, MaxSlugLen) \cup {SlugTests[t][1] : t \in DOMAIN SlugTests}

\* the execution variables while no command is executed
ExecIdle ==
    /\ cmds = << >>
    /\ environ = << >>
    /\ args = [leaf |-> 0, flags |-> << >>, help |-> FALSE, printenv |-> FALSE]
    /\ pc = [step |-> "idle", cmd |-> 0, k |-> 0]
    /\ err = NoError
    /\ trace = << >>

\* the binding variables while only names are derived
BindIdle ==
    /\ typeRegs = NoRegs
    /\ regLast = << >>
    /\ regOps = 0
    /\ config = << >>
    /\ bindPrefix = ""
    /\ command = NewCommand
    /\ bindPc = "idle"
    /\ Environment = TRUE

SlugInit ==
    /\ slugIn \in SlugInputs
    /\ slugSep \in {"-", "_"}
    /\ slugOut = ""
    /\ slugPc = "ready"
    /\ BindIdle
    /\ ExecIdle

\* the call slug(slugIn, slugSep)
SlugCall ==
    /\ slugPc = "ready"
    /\ slugOut' = slug(slugIn, slugSep)
    /\ slugPc' = "done"
    /\ UNCHANGED <<slugIn, slugSep>>
    /\ UNCHANGED bindVars
    /\ UNCHANGED execVars

\* the call screamingSnake(slugIn)
ScreamingSnakeCall ==
    /\ slugPc = "ready"
    /\ slugSep = "_"
    /\ slugOut' = screamingSnake(slugIn)
    /\ slugPc' = "doneSnake"
    /\ UNCHANGED <<slugIn, slugSep>>
    /\ UNCHANGED bindVars
    /\ UNCHANGED execVars

SlugNext == SlugCall \/ ScreamingSnakeCall

SpecSlug == SlugInit /\ [][SlugNext]_vars

(***************************************************************************)
(* C10: word boundaries of slug.                                           *)
(***************************************************************************)
\* an identifier of letters and digits only
IsCamelIdentifier(in) ==
    /\ in # ""
    /\ \A k \in 1..Len(in) : ~IsPunctOrSpace(RuneAt(in, k))

\* rune k starts a new word: a capital after a rune that is no capital, or the
\* last capital of a run of capitals when a lowercase letter follows it
IsWordBoundary(in, k) ==
    /\ k > 1
    /\ IsUpper(RuneAt(in, k))
    /\ \/ ~IsUpper(RuneAt(in, k - 1))
       \/ k < Len(in) /\ IsLower(RuneAt(in, k + 1))

RECURSIVE WordsJoined(_, _, _)
\* the runes of `in` from k on in lower case, one separator before each boundary
WordsJoined(in, sep, k) ==
    IF k > Len(in) THEN ""
    ELSE (IF IsWordBoundary(in, k) THEN sep ELSE "")
             \o ToLowerRune(RuneAt(in, k)) \o WordsJoined(in, sep, k + 1)

\* C10: slug writes exactly one separator at each word boundary of a camel-case
\* identifier and none anywhere else, never writes a separator first, and gives
\* the results Test_slug lists.
C10_SlugWordBoundaries ==
    slugPc = "done" =>
        /\ IsCamelIdentifier(slugIn) => slugOut = WordsJoined(slugIn, slugSep, 1)
        /\ slugOut # "" => Head(slugOut) # slugSep
        /\ \A t \in DOMAIN SlugTests :
               slugIn = SlugTests[t][1] /\ slugSep = "-" => slugOut = SlugTests[t][2]

C10_Witness ==
    /\ slugPc = "done"
    /\ slugIn = "IPMask"
    /\ slugSep = "-"
    /\ slugOut = "ip-mask"

(***************************************************************************)
(* C28: the shape of what slug returns.                                    *)
(***************************************************************************)
RECURSIVE Kept(_)
\* the runes of `in` that slug does not drop, in lower case
Kept(in) ==
    IF in = "" THEN ""
    ELSE (IF IsPunctOrSpace(Head(in)) THEN "" ELSE ToLowerRune(Head(in))) \o Kept(Tail(in))

RECURSIVE WithoutSeparators(_, _)
\* the runes of `out` that are not the separator
WithoutSeparators(out, sep) ==
    IF out = "" THEN ""
    ELSE (IF Head(out) = sep THEN "" ELSE Head(out)) \o WithoutSeparators(Tail(out), sep)

MaxFields == 2

WalkNames == {"Level1", "FooBar", "Inner"}

FlagTags == {"", "persistent", "required", "required,persistent"}

\* a config field without param, env, encoding and usage tags
Field(name, type, flagTag, sub) ==
    [name |-> name, type |-> type, flag |-> flagTag, param |-> "", env |-> "",
     encoding |-> "", usage |-> "", def |-> "", sub |-> sub]

RECURSIVE StructsOfSize(_, _)
RECURSIVE FieldsOfSize(_, _)
\* the fields whose declaration counts n fields in all: a leaf, or a struct of n - 1
FieldsOfSize(leaves, n) ==
    IF n = 1 THEN leaves
    ELSE LET subs == StructsOfSize(leaves, n - 1)
         IN  {Field(name, "struct", flagTag, sub) :
                 name \in WalkNames, flagTag \in FlagTags, sub \in subs}

\* the structs that count n fields in all; the fields of one struct differ in name
StructsOfSize(leaves, n) ==
    IF n = 0 THEN {<< >>}
    ELSE UNION {
            LET fields == FieldsOfSize(leaves, k)
                rests  == StructsOfSize(leaves, n - k)
            IN  UNION {
                    {<<f>> \o r : r \in {x \in rests : \A j \in DOMAIN x : x[j].name # f.name}}
                    : f \in fields}
            : k \in 1..n}

WalkLeaves == {Field(name, "string", flagTag, << >>) : name \in WalkNames, flagTag \in FlagTags}

\* the config of TestBindConfig_Nested: Level1.Outer and Level1.Level2.Inner
NestedTestConfig ==
    << Field("Level1", "struct", "required",
             << Field("Outer", "bool", "", << >>),
                Field("Level2", "struct", "persistent",
                      << Field("Inner", "pflagValue", "", << >>) >>) >>) >>

WalkConfigs ==
    UNION {StructsOfSize(WalkLeaves, n) : n \in 1..MaxFields} \cup {NestedTestConfig}

\* the slug and bind variables a specification does not use
SlugIdle ==
    /\ slugIn = ""
    /\ slugSep = "-"
    /\ slugOut = ""
    /\ slugPc = "idle"

WalkInit ==
    /\ SlugIdle
    /\ ExecIdle
    /\ typeRegs = NoRegs
    /\ regLast = << >>
    /\ regOps = 0
    /\ config \in WalkConfigs
    /\ bindPrefix \in {"", "TEST", "test"}
    /\ command = NewCommand
    /\ bindPc = "setup"
    /\ Environment = TRUE

\* BindConfig(cmd, &cfg) or BindConfig(cmd, &cfg, WithEnvPrefix(bindPrefix))
BindConfigCall ==
    /\ bindPc = "setup"
    /\ command' = IF bindPrefix = "" THEN BindConfig(command, config, "", typeRegs)
                  ELSE IF WithEnvPrefix(bindPrefix).panic # ""
                  THEN [command EXCEPT !.panic = WithEnvPrefix(bindPrefix).panic]
                  ELSE BindConfig(command, config, WithEnvPrefix(bindPrefix).EnvPrefix,
                                  typeRegs)
    /\ bindPc' = "bound"
    /\ UNCHANGED <<typeRegs, regLast, regOps, config, bindPrefix, Environment>>
    /\ UNCHANGED slugVars
    /\ UNCHANGED execVars

WalkNext == BindConfigCall

SpecWalk == WalkInit /\ [][WalkNext]_vars

(***************************************************************************)
(* C8 and C9: names and options of the flags of nested fields.             *)
(***************************************************************************)
RECURSIVE PathFields(_, _)
\* the fields met on the way from struct_ along path, outermost first
PathFields(struct_, path) ==
    IF path = << >> THEN << >>
    ELSE <<struct_[Head(path)]>> \o PathFields(struct_[Head(path)].sub, Tail(path))

RECURSIVE LeafPaths(_)
\* the paths of the fields of struct_ that are no plain structs
LeafPaths(struct_) ==
    UNION {IF struct_[i].type = "struct"
           THEN {<<i>> \o rest : rest \in LeafPaths(struct_[i].sub)}
           ELSE {<<i>>}
           : i \in DOMAIN struct_}

\* all flags of the command, the local and the persistent ones
AllFlags(cmd) ==
    {cmd.flags[k] : k \in DOMAIN cmd.flags} \cup {cmd.pflags[k] : k \in DOMAIN cmd.pflags}

\* whether no field on the way carries a param or an env tag
Untagged(fields) == \A k \in DOMAIN fields : fields[k].param = "" /\ fields[k].env = ""

DeclaresOption(field, option) == Contains(Split(field.flag, ","), option)

\* C9: a leaf's flag is in the persistent flag set (is marked required) exactly
\* when the leaf's field or a struct field enclosing it declares persistent
\* (required); fields outside the path have no say.
C9_OptionsAccumulate ==
    bindPc = "bound" /\ command.panic = "" =>
        /\ \A path \in LeafPaths(config) :
               \E flag \in AllFlags(command) : flag.path = path
        /\ \A k \in DOMAIN command.pflags :
               \E f \in DOMAIN command.pflags[k].path :
                   DeclaresOption(PathFields(config, command.pflags[k].path)[f], optPersistent)
        /\ \A k \in DOMAIN command.flags :
               \A f \in DOMAIN command.flags[k].path :
                   ~DeclaresOption(PathFields(config, command.flags[k].path)[f], optPersistent)
        /\ \A flag \in AllFlags(command) :
               flag.required <=>
                   \E f \in DOMAIN flag.path :
                       DeclaresOption(PathFields(config, flag.path)[f], optRequired)

C9_Witness ==
    /\ bindPc = "bound"
    /\ config = NestedTestConfig
    /\ \E k \in DOMAIN command.flags :
           /\ command.flags[k].name = "level1-outer"
           /\ command.flags[k].required
    /\ \E k \in DOMAIN command.pflags :
           /\ command.pflags[k].name = "level1-level2-inner"
           /\ command.pflags[k].required

(***************************************************************************)
(* Type dispatch: RegisterType and UnregisterType calls, then BindConfig   *)
(* of a config with one field of some type, then a Set of a bound flag.    *)
(* regLast keeps, per type, the last call made for it.                     *)
(***************************************************************************)
MaxRegOps == 2

\* the types the calls register: a built-in, two pflag.Value implementations (one
\* of them a struct) and a type without any capability
RegTypes == {"string", "thirdPartyFlag", "pflagValue", "stringAlias"}

\* the parse functions of TestTypeReg_ReflectPrecedence and TestTypeReg_Reflect,
\* and one that returns an error
Parsers == {"cust", "plain", "strict"}

\* the fields of a field of the type, for the types of kind struct
StructFieldsOf(t) ==
    CASE t = "pflagValue" -> <<Field("val", "string", "", << >>)>>
      [] t = "textValue" -> <<Field("val", "string", "", << >>)>>
      [] t = "net.IPNet" -> <<Field("IP", "net.IP", "", << >>), Field("Mask", "[]byte", "", << >>)>>
      [] OTHER -> << >>

\* type Config struct { Foo T }, and Foo as a struct with and without a field
TypeConfigs ==
    {<<Field("Foo", t, "", StructFieldsOf(t))>> :
        t \in {"string", "int", "bool", "net.IP", "net.IPNet", "thirdPartyFlag", "pflagValue",
               "textValue", "valueText", "stringAlias"}}
    \cup {<<Field("Foo", "struct", "", <<Field("Bar", "string", "", << >>)>>)>>,
          <<Field("Foo", "struct", "", << >>)>>,
          NestedTestConfig}

NeverCalled == [op |-> "none", parser |-> ""]

TypesInit ==
    /\ SlugIdle
    /\ ExecIdle
    /\ typeRegs = NoRegs
    /\ regLast = [t \in RegTypes |-> NeverCalled]
    /\ regOps = 0
    /\ config \in TypeConfigs
    /\ bindPrefix = ""
    /\ command = NewCommand
    /\ bindPc = "setup"
    /\ Environment = TRUE

\* where the run is after a call of the registry: "late" once BindConfig has
\* returned
afterRegistryCall(at) == IF at = "setup" THEN "setup" ELSE "late"

\* RegisterType[t](parser, serialize)
RegisterTypeCall ==
    /\ bindPc \in {"setup", "bound", "late"}
    /\ regOps < MaxRegOps
    /\ \E t \in RegTypes, parser \in Parsers :
           /\ typeRegs' = RegisterTypeIn(typeRegs, t, parser)
           /\ regLast' = [regLast EXCEPT ![t] = [op |-> "register", parser |-> parser]]
    /\ regOps' = regOps + 1
    /\ bindPc' = afterRegistryCall(bindPc)
    /\ UNCHANGED <<config, bindPrefix, command, Environment>>
    /\ UNCHANGED slugVars
    /\ UNCHANGED execVars

\* UnregisterType[t]()
UnregisterTypeCall ==
    /\ bindPc \in {"setup", "bound", "late"}
    /\ regOps < MaxRegOps
    /\ \E t \in RegTypes :
           /\ typeRegs' = UnregisterTypeIn(typeRegs, t)
           /\ regLast' = [regLast EXCEPT ![t] = [op |-> "unregister", parser |-> ""]]
    /\ regOps' = regOps + 1
    /\ bindPc' = afterRegistryCall(bindPc)
    /\ UNCHANGED <<config, bindPrefix, command, Environment>>
    /\ UNCHANGED slugVars
    /\ UNCHANGED execVars

\* fs.Set(name, "foo") on one of the bound flags
SetFlagCall ==
    /\ bindPc \in {"bound", "late"}
    /\ command.panic = ""
    /\ \/ \E k \in DOMAIN command.flags :
              /\ command.flags[k].type \in SettableTypes
              /\ command' = [command EXCEPT !.flags[k] = flagSet(@, "foo")]
       \/ \E k \in DOMAIN command.pflags :
              /\ command.pflags[k].type \in SettableTypes
              /\ command' = [command EXCEPT !.pflags[k] = flagSet(@, "foo")]
    /\ bindPc' = IF bindPc = "bound" THEN "set" ELSE "lateSet"
    /\ UNCHANGED <<typeRegs, regLast, regOps, config, bindPrefix, Environment>>
    /\ UNCHANGED slugVars
    /\ UNCHANGED execVars

TypesNext == RegisterTypeCall \/ UnregisterTypeCall \/ BindConfigCall \/ SetFlagCall

SpecTypes == TypesInit /\ [][TypesNext]_vars

(***************************************************************************)
(* C5, C6, C7: the order of the binding strategies.                        *)
(***************************************************************************)
\* C5: a field whose type is registered is bound through the registered pair,
\* also when the type is one of the built-in types.
C5_RegistryBeforeBuiltins ==
    bindPc = "bound" /\ command.panic = "" =>
        \A flag \in AllFlags(command) :
            flag.type \in DOMAIN typeRegs =>
                /\ flag.strategy = "custom"
                /\ flag.parser = typeRegs[flag.type].Parser

\* the first strategy, in the order registry, pflag.Value, text codec, struct
\* with fields, that a type outside the built-ins matches
FirstMatch(field, regs) ==
    IF field.type \in DOMAIN regs THEN "custom"
    ELSE IF field.type \in ValueTypes THEN "pflag"
    ELSE IF field.type \in TextTypes THEN "text"
    ELSE IF field.type \in {"struct", "pflagValue", "textValue"} /\ field.sub # << >>
    THEN "recurse"
    ELSE "none"

RECURSIVE ReachedPaths(_, _)
\* the paths of the fields the walk gets to: all fields of a struct, and those of
\* a field it recurses into
ReachedPaths(struct_, regs) ==
    UNION {{<<i>>} \cup
           (IF struct_[i].type \notin BuiltinTypes /\ FirstMatch(struct_[i], regs) = "recurse"
            THEN {<<i>> \o rest : rest \in ReachedPaths(struct_[i].sub, regs)}
            ELSE {})
           : i \in DOMAIN struct_}

\* the field at the end of the path
FieldAt(struct_, path) == PathFields(struct_, path)[Len(path)]

\* C6: a field of a type outside the built-ins is bound by the first strategy it
\* matches in the order registry, pflag.Value, text codec, struct with fields: it
\* is one flag of that strategy (a registered parser is what Set runs, not the
\* type's own Set), a struct field is walked only when no earlier strategy
\* matches, and a field that matches none aborts the binding.
C6_StrategyOrder ==
    bindPc \in {"bound", "set"} =>
        LET reached == ReachedPaths(config, typeRegs)
            others  == {path \in reached : FieldAt(config, path).type \notin BuiltinTypes}
        IN  /\ HasPrefix(command.panic, "unsupported field type") <=>
                   \E path \in others : FirstMatch(FieldAt(config, path), typeRegs) = "none"
            /\ command.panic = "" =>
                   /\ \A flag \in AllFlags(command) : flag.path \in reached
                   /\ \A path \in others :
                          LET field == FieldAt(config, path)
                              first == FirstMatch(field, typeRegs)
                              flags == {flag \in AllFlags(command) : flag.path = path}
                          IN  IF first = "recurse" THEN flags = {}
                              ELSE /\ Cardinality(flags) = 1
                                   /\ \A flag \in flags :
                                          /\ flag.strategy = first
                                          /\ first = "custom" =>
                                                 flag.parser = typeRegs[field.type].Parser
                                          /\ flag.changed =>
                                                 flag.value =
                                                     CASE first = "custom" ->
                                                              applyParser(typeRegs[field.type].Parser, "foo")
                                                       [] field.type = "thirdPartyFlag" -> "foo-pflag"
                                                       [] OTHER -> "foo"

C6_Witness ==
    /\ bindPc = "set"
    /\ config = <<Field("Foo", "thirdPartyFlag", "", << >>)>>
    /\ "thirdPartyFlag" \in DOMAIN typeRegs
    /\ typeRegs["thirdPartyFlag"].Parser = "cust"
    /\ command.flags[1].name = "foo"
    /\ command.flags[1].value = "foo-cust"

\* C7: after any calls of RegisterType and UnregisterType, BindConfig binds a
\* field of type T through the parser of the last RegisterType[T] when the last
\* call for T was a RegisterType, and without the registry otherwise.
C7_LastCallDecides ==
    bindPc = "bound" /\ command.panic = "" =>
        \A flag \in AllFlags(command) :
            flag.type \in RegTypes =>
                IF regLast[flag.type].op = "register"
                THEN flag.strategy = "custom" /\ flag.parser = regLast[flag.type].parser
                ELSE flag.strategy # "custom"

(***************************************************************************)
(* Binding of tagged fields: BindConfig applied to configs whose fields    *)
(* carry param, env and encoding tags.                                     *)
(***************************************************************************)
\* a config field with its param, env and encoding tags
Tagged(name, type, flagTag, param, env, encoding, sub) ==
    [Field(name, type, flagTag, sub) EXCEPT !.param = param, !.env = env,
                                            !.encoding = encoding]

\* param tags: none, a short form, a long form, both, and the malformed ones of
\* TestBindConfig_InvalidConfigTags
ParamTags == {"", "f", "name", "name,n", "f,b", "foo,bar", ",n"}

\* env tags: none, suppressed, explicit names in and out of SCREAMING_SNAKE_CASE
EnvTags == {"", "-", "TEST_BAR", "FOO", "lowercase", "Mixed_Case"}

\* encoding tags of int and string slice fields
EncodingTags == {"", encodingCount, encodingRaw}

TagLeaves ==
    {Tagged("Foo", "string", "", param, "", "", << >>) : param \in ParamTags}
    \cup {Tagged("Foo", "string", "", "", env, "", << >>) : env \in EnvTags}
    \cup {Tagged("Count", type, "", "", env, encoding, << >>) :
             type \in {"int", "[]string"}, env \in {"", "-", "COUNT"},
             encoding \in EncodingTags}
    \cup {Tagged(name, "string", flagTag, param, env, "", << >>) :
             name \in {"Foo", "Bar"}, flagTag \in {"", "persistent"},
             param \in {"", "bar"}, env \in {"", "TEST_BAR"}}

RECURSIVE FlatStructs(_, _)
\* the structs of n of the leaves, no two of them of the same name
FlatStructs(leaves, n) ==
    IF n = 0 THEN {<< >>}
    ELSE LET shorter == FlatStructs(leaves, n - 1)
         IN  UNION {{Append(s, f) : f \in {g \in leaves : \A j \in DOMAIN s : s[j].name # g.name}}
                    : s \in shorter}

\* a tagged leaf inside a struct field that carries tags itself, and inside a
\* struct field of a struct field, both with env tags
NestedTagConfigs ==
    {<<Tagged("Outer", "struct", "", param, env, "", <<leaf>>)>> :
        param \in {"", "o", "out", "out,o"}, env \in {"", "-", "OUT"},
        leaf \in {f \in TagLeaves : f.name = "Foo" /\ f.flag = ""}}
    \cup {<<Tagged("Outer", "struct", "", "", outer, "",
                   <<Tagged("Mid", "struct", "", "", mid, "",
                            <<Tagged("Foo", "string", "", "", env, "", << >>)>>)>>)>> :
             outer \in {"", "-", "OUT"}, mid \in {"", "-", "MID"}, env \in {"", "-", "FOO"}}

TagConfigs == UNION {FlatStructs(TagLeaves, n) : n \in 1..MaxFields} \cup NestedTagConfigs

TagsInit ==
    /\ SlugIdle
    /\ ExecIdle
    /\ typeRegs = NoRegs
    /\ regLast = << >>
    /\ regOps = 0
    /\ config \in TagConfigs
    /\ bindPrefix \in {"", "TEST"}
    /\ command = NewCommand
    /\ bindPc = "setup"
    /\ Environment = TRUE

TagsNext == BindConfigCall

SpecTags == TagsInit /\ [][TagsNext]_vars

(***************************************************************************)
(* C11 to C14: what the tags of a field make of its parameter.             *)
(***************************************************************************)
\* the name slot and the abbreviation slot of a param tag
NameSlot(param) == Cut(param, ",")[1]

AbbrevSlot(param) == Cut(param, ",")[2]

\* a one-character name together with an abbreviation
ShortNameWithAbbrev(param) == Len(NameSlot(param)) = 1 /\ AbbrevSlot(param) # ""

\* an abbreviation of more than one character
LongAbbrev(param) == Len(AbbrevSlot(param)) > 1

\* the long name the field contributes: the tag's name of two characters or
\* more, and the derived default otherwise
OwnName(field) ==
    IF Len(NameSlot(field.param)) >= 2 THEN NameSlot(field.param)
    ELSE slug(field.name, "-")

\* the abbreviation the tag gives: a single character alone, or the second slot
OwnAbbrev(field) ==
    IF Len(NameSlot(field.param)) = 1 /\ AbbrevSlot(field.param) = ""
    THEN NameSlot(field.param)
    ELSE AbbrevSlot(field.param)

\* C11: a parameter's long name is the names of the enclosing struct fields and
\* its own joined by "-", each the tag's name when it has two characters or more
\* and slug of the field name otherwise; its abbreviation is the tag's second
\* slot, or a single character given alone; a one-character name with an
\* abbreviation and an abbreviation of more than one character abort the
\* binding with their messages; every flag has a long name and an abbreviation
\* of at most one character.
C11_ParamTag ==
    bindPc = "bound" =>
        LET reached == ReachedPaths(config, typeRegs)
            alone   == Len(config) = 1 /\ config[1].type # "struct"
        IN  /\ \A path \in reached :
                   LET param == FieldAt(config, path).param
                   IN  ShortNameWithAbbrev(param) \/ LongAbbrev(param) => command.panic # ""
            /\ command.panic = "must be at least two characters" =>
                   \E path \in reached : ShortNameWithAbbrev(FieldAt(config, path).param)
            /\ command.panic = "must be a single character" =>
                   \E path \in reached : LongAbbrev(FieldAt(config, path).param)
            /\ alone /\ ShortNameWithAbbrev(config[1].param) =>
                   command.panic = "must be at least two characters"
            /\ alone /\ LongAbbrev(config[1].param) /\ ~ShortNameWithAbbrev(config[1].param) =>
                   command.panic = "must be a single character"
            /\ command.panic = "" =>
                   /\ \A path \in LeafPaths(config) :
                          LET fields == PathFields(config, path)
                          IN  \E flag \in AllFlags(command) :
                                  /\ flag.path = path
                                  /\ flag.name =
                                         JoinWith([k \in DOMAIN fields |-> OwnName(fields[k])], "-")
                                  /\ flag.abbrev = OwnAbbrev(fields[Len(fields)])
                   /\ \A flag \in AllFlags(command) :
                          Len(flag.name) > 0 /\ Len(flag.abbrev) \in {0, 1}

C11_Witness ==
    /\ bindPc = "bound"
    /\ command.panic = ""
    /\ Len(config) = 1
    /\ config[1].name = "Outer"
    /\ config[1].param = "out,o"
    /\ config[1].sub[1].param = "f"
    /\ \E flag \in AllFlags(command) :
           /\ flag.path = <<1, 1>>
           /\ flag.name = "out-foo"
           /\ flag.abbrev = "f"

\* a suppressed environment name
Suppressed == "-"

\* an explicit env name that is not its own screamingSnake
NotScreamingSnake(env) == env \notin {"", Suppressed} /\ env # screamingSnake(env)

RECURSIVE ResolvedEnv(_, _)
\* the environment name of the last of the fields, each inside the one before
\* it, under the env prefix in effect ("" when none is): an explicit name as it
\* is, else the prefix and the field's name in upper case with "_" between words
ResolvedEnv(fields, prefix) ==
    LET field == Head(fields)
        own   == IF field.env # "" THEN field.env
                 ELSE IF prefix = "" THEN Suppressed
                 ELSE prefix \o ToUpper(slug(field.name, "_"))
    IN  IF Len(fields) = 1 THEN own
        ELSE ResolvedEnv(Tail(fields), IF own = Suppressed THEN "" ELSE own \o "_")

\* the env prefix BindConfig starts from
PrefixInEffect == IF bindPrefix = "" THEN "" ELSE bindPrefix \o "_"

\* whether a param tag of the config aborts the binding
ParamAborts ==
    \E path \in ReachedPaths(config, typeRegs) :
        LET param == FieldAt(config, path).param
        IN  ShortNameWithAbbrev(param) \/ LongAbbrev(param)

\* C12: a flag's env annotation is the field's resolved environment name: with
\* no env tag the env prefix in effect and the field name in screaming snake
\* case, and none without a prefix; none for env:"-"; an explicit name in
\* screaming snake case as it is, without any prefix; any other explicit name
\* aborts the binding with the SCREAMING_SNAKE_CASE message.
C12_EnvTag ==
    bindPc = "bound" =>
        LET reached == ReachedPaths(config, typeRegs)
        IN  /\ \A path \in reached :
                   NotScreamingSnake(FieldAt(config, path).env) => command.panic # ""
            /\ command.panic = "must be in SCREAMING_SNAKE_CASE" =>
                   \E path \in reached : NotScreamingSnake(FieldAt(config, path).env)
            /\ Len(config) = 1 /\ NotScreamingSnake(config[1].env) /\ ~ParamAborts =>
                   command.panic = "must be in SCREAMING_SNAKE_CASE"
            /\ command.panic = "" =>
                   \A path \in LeafPaths(config) :
                       LET env == ResolvedEnv(PathFields(config, path), PrefixInEffect)
                       IN  \E flag \in AllFlags(command) :
                               /\ flag.path = path
                               /\ flag.env = IF env = Suppressed THEN << >> ELSE <<env>>

C12_Witness ==
    /\ bindPc = "bound"
    /\ command.panic = ""
    /\ bindPrefix = "TEST"
    /\ Len(config) = 2
    /\ config[1].env = "FOO"
    /\ config[2].env = ""
    /\ \E flag \in AllFlags(command) : flag.path = <<1>> /\ flag.env = <<"FOO">>
    /\ \E flag \in AllFlags(command) : flag.path = <<2>> /\ flag.env = <<"TEST_COUNT">>

\* an int counted by its flag, or a string slice kept raw
CountOrRaw(type, encoding) ==
    \/ type = "int" /\ encoding = encodingCount
    \/ type = "[]string" /\ encoding = encodingRaw

\* C13: a count-encoded int or raw-encoded string slice whose resolved
\* environment name is not suppressed aborts the binding, with the message that
\* asks for env:"-"; after a binding that completed no count- or raw-encoded
\* flag carries an env annotation.
C13_CountAndRawNeedNoEnv ==
    bindPc = "bound" =>
        /\ \A path \in LeafPaths(config) :
               LET field == FieldAt(config, path)
               IN  (/\ CountOrRaw(field.type, field.encoding)
                    /\ ResolvedEnv(PathFields(config, path), PrefixInEffect) # Suppressed)
                       => command.panic # ""
        /\ (/\ Len(config) = 1
            /\ CountOrRaw(config[1].type, config[1].encoding)
            /\ ResolvedEnv(config, PrefixInEffect) # Suppressed
            /\ ~ParamAborts
            /\ ~NotScreamingSnake(config[1].env))
               => command.panic = IF config[1].type = "int"
                                  THEN "count encoding requires env:-"
                                  ELSE "encoding raw requires env:-"
        /\ command.panic = "" =>
               \A flag \in AllFlags(command) :
                   CountOrRaw(flag.type, flag.encoding) => flag.env = << >>

C13_Witness ==
    /\ bindPc = "bound"
    /\ bindPrefix = "TEST"
    /\ config = <<Tagged("Count", "int", "", "", "", encodingCount, << >>)>>
    /\ command.panic = "count encoding requires env:-"

\* C14: after a binding that completed, no two flags of the command, of its
\* flag set and its persistent flag set together, have the same name, and no
\* two have the same env annotation.
C14_UniqueNames ==
    bindPc = "bound" /\ command.panic = "" =>
        \A f \in AllFlags(command) : \A g \in AllFlags(command) :
            f.path # g.path =>
                /\ f.name # g.name
                /\ f.env # << >> => f.env # g.env

(***************************************************************************)
(* Execution: Execute of a root command with one sub-command, one action   *)
(* per stage: flag parsing, the hooks of each PersistentPreRunE on the     *)
(* path from the root to the leaf, Run, and the usage printed on an error. *)
(* The user's hooks return nil.                                            *)
(***************************************************************************)
MaxEnv == 2

\* the root's config: type trivialConf struct { Foo string; Bar int } with
\* defaults, and a persistent bool that the sub-commands inherit
RootCfg ==
    << [Field("Foo", "string", "", << >>) EXCEPT !.def = "dflt"],
       [Field("Bar", "int", "", << >>) EXCEPT !.def = "3"],
       [Field("Verbose", "bool", "persistent", << >>) EXCEPT
           !.def = "false", !.usage = "say more"] >>

\* the sub-command's config: a required int, a persistent bool whose env tag
\* spells out its name, and a string two structs deep
SubCfg ==
    << [Field("Bar", "int", "required", << >>) EXCEPT !.def = "3"],
       [Field("Debug", "bool", "persistent", << >>) EXCEPT
           !.def = "false", !.env = "NICECMD_TEST_SUB_DEBUG"],
       Field("Level1", "struct", "",
             << Field("Level2", "struct", "",
                      << [Field("Inner", "string", "", << >>) EXCEPT !.def = "in"] >>) >>) >>

\* the command tree: nicecmd-test with the sub-command sub
ExecCommands(environment) ==
    LET root == RootCommand("nicecmd-test", RootCfg, "", TRUE, NoRegs, environment)
    IN  <<root, SubCommand(<<root>>, "sub", SubCfg, "", TRUE, NoRegs, environment)>>

\* the values a variable of the environment may have
EnvValues ==
    [name \in {"NICECMD_TEST_FOO", "NICECMD_TEST_BAR", "NICECMD_TEST_SUB_BAR",
               "NICECMD_TEST_SUB_DEBUG", "NICECMD_TEST_SUB_LEVEL1_LEVEL2_INNER",
               "NICECMD_TEST_UNBOUND",
               "NICECMD_TEST_SUB_UNBOUND", "HOME"} |->
        CASE name = "NICECMD_TEST_FOO" -> {"env", ""}
          [] name \in {"NICECMD_TEST_BAR", "NICECMD_TEST_SUB_BAR"} -> {"07", "x"}
          [] name = "NICECMD_TEST_SUB_DEBUG" -> {"true", "maybe"}
          [] name = "HOME" -> {"/root"}
          [] OTHER -> {"bar"}]

\* the environments of at most MaxEnv variables
Environments ==
    UNION {{env \in [names -> UNION {EnvValues[n] : n \in names}] :
               \A n \in names : env[n] \in EnvValues[n]}
           : names \in {ns \in SUBSET DOMAIN EnvValues : Cardinality(ns) <= MaxEnv}}

\* --name value given to the command of index cmd
Arg(cmd, name, value) == [cmd |-> cmd, name |-> name, value |-> value]

\* the flags given before the name of the sub-command
RootArgs ==
    {<< >>,
     <<Arg(1, "foo", "cli")>>,
     <<Arg(1, "bar", "5")>>,
     <<Arg(1, "bar", "y")>>,
     <<Arg(1, "env-lax", "true")>>,
     <<Arg(1, "env-lax", "true"), Arg(1, "foo", "cli")>>,
     <<Arg(1, "env-lax", "true"), Arg(1, "bar", "5")>>,
     <<Arg(1, "env-file", ".env")>>,
     <<Arg(1, "env-file", ".env"), Arg(1, "env-overwrite", "true")>>,
     <<Arg(1, "env-file", "missing")>>,
     <<Arg(1, "env-file", ".env"), Arg(1, "env-lax", "true")>>,
     <<Arg(1, "env-file", ".env"), Arg(1, "env-overwrite", "true"), Arg(1, "env-lax", "true")>>}

\* the flags given after the name of the sub-command
SubArgs ==
    {<< >>, <<Arg(2, "bar", "5")>>, <<Arg(2, "debug", "true")>>,
     <<Arg(2, "level1-level2-inner", "cli")>>}

\* the command lines that name the printenv command of the leaf
PrintEnvArgs ==
    {[leaf |-> 1, flags |-> << >>, help |-> FALSE, printenv |-> TRUE],
     [leaf |-> 1, flags |-> <<Arg(1, "foo", "cli")>>, help |-> FALSE, printenv |-> TRUE],
     [leaf |-> 2, flags |-> << >>, help |-> FALSE, printenv |-> TRUE],
     [leaf |-> 2, flags |-> <<Arg(1, "verbose", "true")>>, help |-> FALSE, printenv |-> TRUE],
     [leaf |-> 2, flags |-> <<Arg(1, "foo", "cli"), Arg(2, "debug", "true")>>,
      help |-> FALSE, printenv |-> TRUE]}

\* the command lines: the leaf command, the flags given, whether --help is
\* among them, and whether the printenv command of the leaf is named
ArgLists ==
    {[leaf |-> 1, flags |-> r, help |-> FALSE, printenv |-> FALSE] : r \in RootArgs}
    \cup {[leaf |-> 2, flags |-> r \o s, help |-> FALSE, printenv |-> FALSE] :
             r \in {x \in RootArgs : Len(x) <= 1 /\ \A k \in DOMAIN x : x[k].name # "bar"},
             s \in SubArgs}
    \cup PrintEnvArgs
    \cup {[leaf |-> 1, flags |-> << >>, help |-> TRUE, printenv |-> FALSE],
          [leaf |-> 1, flags |-> <<Arg(1, "bar", "y")>>, help |-> TRUE, printenv |-> FALSE],
          [leaf |-> 2, flags |-> << >>, help |-> TRUE, printenv |-> FALSE]}

ExecInit ==
    /\ SlugIdle
    /\ typeRegs = NoRegs
    /\ regLast = << >>
    /\ regOps = 0
    /\ config = << >>
    /\ bindPrefix = ""
    /\ command = NewCommand
    /\ bindPc = "idle"
    /\ Environment \in BOOLEAN
    /\ cmds = ExecCommands(Environment)
    /\ environ \in Environments
    /\ args \in {a \in ArgLists : a.printenv => Environment}
    /\ pc = [step |-> "parse", cmd |-> 1, k |-> 1]
    /\ err = NoError
    /\ trace = << >>

\* the values of the config of the command: parameter name -> what the field holds
ConfigValues(cmd) ==
    LET flags == LocalFlags(cmd)
        bound == {k \in DOMAIN flags : flags[k].path # << >>}
    IN  [name \in {flags[k].name : k \in bound} |->
            flags[CHOOSE k \in bound : flags[k].name = name].value]

\* the record of a stage that has run: what it returned, the config of its
\* command after it, the environment it started in, the loader it called and
\* the lines it wrote to the output of the command
Ran(step, cmd, result, commands, env, call) ==
    [step |-> step, cmd |-> cmd, err |-> result, cfg |-> ConfigValues(commands[cmd]),
     env |-> env, call |-> call, out |-> << >>]

\* the stage after the PersistentPreRun hooks of the path: PreRunE of printenv
\* when the command line names it, the check of the required flags otherwise
afterHooks ==
    [step |-> IF args.printenv THEN "printenv" ELSE "validate", cmd |-> args.leaf, k |-> 0]

\* nextStage that goes on to the next hook whatever the hook returned
nextStageWhateverReturned(commands, at, result) ==
    IF at.k < Len(commands[at.cmd].chain)
    THEN [step |-> "hooks", cmd |-> at.cmd, k |-> at.k + 1]
    ELSE IF at.cmd < args.leaf THEN [step |-> "hooks", cmd |-> at.cmd + 1, k |-> 1]
    ELSE afterHooks

\* the stage after the hook at `at` returned
nextStage(commands, at, result) ==
    IF result.kind # "none" THEN [step |-> "usage", cmd |-> args.leaf, k |-> 0]
    ELSE IF at.k < Len(commands[at.cmd].chain)
    THEN [step |-> "hooks", cmd |-> at.cmd, k |-> at.k + 1]
    ELSE IF at.cmd < args.leaf THEN [step |-> "hooks", cmd |-> at.cmd + 1, k |-> 1]
    ELSE afterHooks

\* whether the hook of the kind is the one that runs next
AtHook(kind) == pc.step = "hooks" /\ cmds[pc.cmd].chain[pc.k] = kind

RECURSIVE parentsPflags(_, _)
\* the persistent flags of the parents of command i, the nearest parent first
parentsPflags(commands, i) ==
    IF i <= 1 THEN << >>
    ELSE commands[i - 1].pflags \o parentsPflags(commands, i - 1)

\* whether ValidateRequiredFlags counts the flag as missing
isMissing(flag) == flag.required /\ ~flag.changed

\* Cobra's ValidateRequiredFlags of the leaf command: the error it returns
validateRequiredFlags(commands, leaf) ==
    LET missing == SelectSeq(LocalFlags(commands[leaf]) \o parentsPflags(commands, leaf),
                             isMissing)
    IN  IF missing # << >>
        THEN [kind |-> "required", Names |-> [k \in DOMAIN missing |-> missing[k].name]]
        ELSE NoError

\* cmd.Flags().VisitAll(applyEnvToFlag(cmd, nil)) of the leaf command: its own
\* flags and the persistent flags of its parents
visitFlags(commands, leaf, env) ==
    [i \in DOMAIN commands |->
        IF i = leaf
        THEN WithLocalFlags(commands[i],
                 visitAll(LocalFlags(commands[i]), env, 1, << >>).flags)
        ELSE IF i < leaf
        THEN [commands[i] EXCEPT !.pflags = visitAll(commands[i].pflags, env, 1, << >>).flags]
        ELSE commands[i]]

RECURSIVE omitQuotes(_)
\* the regular expression ^[a-zA-Z0-9_]*$ of printEnv
omitQuotes(s) ==
    s = "" \/ (/\ \/ IsUpper(RuneAt(s, 1)) \/ IsLower(RuneAt(s, 1))
                  \/ IsDigit(RuneAt(s, 1)) \/ RuneAt(s, 1) = "_"
               /\ omitQuotes(Tail(s)))

\* bashQuote of printEnv; the values here have nothing strconv.Quote escapes
bashQuote(s) == IF omitQuotes(s) THEN s ELSE Quoted(s)

\* outerCmd.Flags() when printenv runs: the flags of the command and the
\* persistent flags of its parents, SortFlags being false
outerFlags(commands, outer) ==
    VisitAllOrder(LocalFlags(commands[outer]) \o parentsPflags(commands, outer),
                  commands[outer].sortFlags)

\* the line of printEnv for the variable that never shows the value as set
envLineCommented(flag) == "# " \o flag.env[1] \o "=" \o bashQuote(flag.defValue)

\* the line of printEnv for the variable of the flag
envLine(flag) ==
    IF flag.changed THEN flag.env[1] \o "=" \o bashQuote(flag.value)
    ELSE "# " \o flag.env[1] \o "=" \o bashQuote(flag.defValue)

\* the header line of printEnv for the flag
headerLine(flag) ==
    "# " \o flag.name
         \o (IF Len(flag.annUsage) > 0 THEN ": " \o flag.annUsage[1] ELSE "")
         \o " (type: " \o flag.type \o ")"
         \o (IF flag.required THEN " (required)" ELSE "")

RECURSIVE printFlags(_)
\* the lines the visitor of printEnv writes for the flags
printFlags(flags) ==
    IF flags = << >> THEN << >>
    ELSE (IF Head(flags).env = << >> THEN << >>
          ELSE <<headerLine(Head(flags)), envLine(Head(flags))>>)
         \o printFlags(Tail(flags))

\* fullCommand of opinionatedBindConfig: the names of the parents and of the command
fullCommand(commands, i) == JoinWith([k \in 1..i |-> Name(commands[k])], " ")

\* printEnv of the printenv command of outer: the lines it writes, the empty
\* lines between the flags left out
printEnv(commands, outer) ==
    <<"# " \o fullCommand(commands, outer)>> \o printFlags(outerFlags(commands, outer))

\* Execute parses the flags of the commands on the path; --help then shows the help
ParseFlags ==
    /\ pc.step = "parse"
    /\ LET res == parseArgs(cmds, args.flags, 1)
       IN  /\ cmds' = res.cmds
           /\ err' = res.err
           /\ trace' = Append(trace, Ran("ParseFlags", args.leaf, res.err, res.cmds, environ, ""))
           /\ pc' = IF res.err.kind # "none" THEN [step |-> "usage", cmd |-> args.leaf, k |-> 0]
                    ELSE IF args.help THEN [step |-> "help", cmd |-> args.leaf, k |-> 0]
                    ELSE [step |-> "hooks", cmd |-> 1, k |-> 1]
    /\ UNCHANGED <<environ, args>>
    /\ UNCHANGED slugVars
    /\ UNCHANGED bindVars

\* the help function of the leaf command: applyEnvToHelp when the root set it
HelpFunc ==
    /\ pc.step = "help"
    /\ cmds' = IF cmds[1].helpFunc = "applyEnvToHelp" THEN visitFlags(cmds, pc.cmd, environ)
               ELSE cmds
    /\ trace' = Append(trace, Ran("help", pc.cmd, NoError, cmds', environ, ""))
    /\ pc' = [step |-> "done", cmd |-> pc.cmd, k |-> 0]
    /\ UNCHANGED <<environ, args, err>>
    /\ UNCHANGED slugVars
    /\ UNCHANGED bindVars

\* the hook applyDotEnv of the root command
ApplyDotEnvHook ==
    /\ AtHook("applyDotEnv")
    /\ LET res == applyDotEnv(cmds[1], environ)
       IN  /\ environ' = res.env
           /\ err' = res.err
           /\ trace' = Append(trace, Ran("applyDotEnv", pc.cmd, res.err, cmds, environ, res.call))
           /\ pc' = nextStage(cmds, pc, res.err)
    /\ UNCHANGED <<cmds, args>>
    /\ UNCHANGED slugVars
    /\ UNCHANGED bindVars

\* the hook checkEnv of the root command
CheckEnvHook ==
    /\ AtHook("checkEnv")
    /\ LET res == checkEnv(cmds, args.leaf, environ)
       IN  /\ err' = res
           /\ trace' = Append(trace, Ran("checkEnv", pc.cmd, res, cmds, environ, ""))
           /\ pc' = nextStage(cmds, pc, res)
    /\ UNCHANGED <<cmds, environ, args>>
    /\ UNCHANGED slugVars
    /\ UNCHANGED bindVars

\* the hook applyEnvToCmd of the command pc.cmd
ApplyEnvToCmdHook ==
    /\ AtHook("applyEnvToCmd")
    /\ LET res  == applyEnvToCmd(cmds[pc.cmd], environ)
           next == [cmds EXCEPT ![pc.cmd] = res.cmd]
       IN  /\ cmds' = next
           /\ err' = res.err
           /\ trace' = Append(trace, Ran("applyEnvToCmd", pc.cmd, res.err, next, environ, ""))
           /\ pc' = nextStage(cmds, pc, res.err)
    /\ UNCHANGED <<environ, args>>
    /\ UNCHANGED slugVars
    /\ UNCHANGED bindVars

\* the user's PersistentPreRun hook of the command pc.cmd
UserHook ==
    /\ AtHook("user")
    /\ trace' = Append(trace, Ran("PersistentPreRun", pc.cmd, NoError, cmds, environ, ""))
    /\ pc' = nextStage(cmds, pc, NoError)
    /\ UNCHANGED <<cmds, environ, args, err>>
    /\ UNCHANGED slugVars
    /\ UNCHANGED bindVars

\* Cobra checks the required flags of the leaf command before it calls Run
ValidateRequiredFlags ==
    /\ pc.step = "validate"
    /\ LET res == validateRequiredFlags(cmds, pc.cmd)
       IN  /\ err' = res
           /\ trace' = Append(trace, Ran("ValidateRequiredFlags", pc.cmd, res, cmds, environ, ""))
           /\ pc' = IF res.kind # "none" THEN [step |-> "usage", cmd |-> pc.cmd, k |-> 0]
                    ELSE [step |-> "run", cmd |-> pc.cmd, k |-> 0]
    /\ UNCHANGED <<cmds, environ, args>>
    /\ UNCHANGED slugVars
    /\ UNCHANGED bindVars

\* PreRunE of printenv sets printEnv as the help function and returns ErrHelp,
\* so Execute shows that help and returns before it checks the required flags
PrintEnvCmd ==
    /\ pc.step = "printenv"
    /\ trace' = Append(trace,
                     [Ran("printenv", pc.cmd, NoError, cmds, environ, "") EXCEPT
                         !.out = printEnv(cmds, pc.cmd)])
    /\ pc' = [step |-> "done", cmd |-> pc.cmd, k |-> 0]
    /\ UNCHANGED <<cmds, environ, args, err>>
    /\ UNCHANGED slugVars
    /\ UNCHANGED bindVars

\* the user's Run hook of the leaf command
RunHook ==
    /\ pc.step = "run"
    /\ trace' = Append(trace, Ran("Run", pc.cmd, NoError, cmds, environ, ""))
    /\ pc' = [step |-> "done", cmd |-> pc.cmd, k |-> 0]
    /\ UNCHANGED <<cmds, environ, args, err>>
    /\ UNCHANGED slugVars
    /\ UNCHANGED bindVars

\* the usage Execute prints for the leaf command when it returns an error:
\* applyEnvToUsage, when the root set it, visits the flags of the leaf and the
\* persistent flags of its parents
UsageOnError ==
    /\ pc.step = "usage"
    /\ cmds' = IF cmds[1].usageFunc = "applyEnvToUsage" THEN visitFlags(cmds, pc.cmd, environ)
               ELSE cmds
    /\ trace' = Append(trace, Ran("usage", pc.cmd, NoError, cmds', environ, ""))
    /\ pc' = [step |-> "done", cmd |-> pc.cmd, k |-> 0]
    /\ UNCHANGED <<environ, args, err>>
    /\ UNCHANGED slugVars
    /\ UNCHANGED bindVars

Next ==
    \/ ParseFlags
    \/ HelpFunc
    \/ ApplyDotEnvHook
    \/ CheckEnvHook
    \/ ApplyEnvToCmdHook
    \/ UserHook
    \/ ValidateRequiredFlags
    \/ PrintEnvCmd
    \/ RunHook
    \/ UsageOnError

Spec == ExecInit /\ [][Next]_vars

(***************************************************************************)
(* C1 to C4: precedence, environment resolution and the audit.             *)
(***************************************************************************)
\* the config-bound flags of the command that carry an env name
EnvBound(cmd) ==
    {flag \in {LocalFlags(cmd)[k] : k \in DOMAIN LocalFlags(cmd)} :
        flag.path # << >> /\ flag.env # << >>}

\* whether the command line gives the flag of the command
GivenOnCommandLine(cmd, name) ==
    \E a \in DOMAIN args.flags : args.flags[a].cmd = cmd /\ args.flags[a].name = name

\* whether the text parses as a value of the type, and what the value prints as
ParsesAs(type, text) ==
    CASE type = "int" -> ParseInt(text)
      [] type = "bool" -> ParseBool(text)
      [] OTHER -> [ok |-> TRUE, text |-> text]

\* the stages of the trace that are user hooks or the env hook of a command
StagesOf(steps) == {t \in DOMAIN trace : trace[t].step \in steps}

\* C1: a parameter given on the command line whose environment variable is set
\* too holds the command-line value after environment resolution and in the
\* hooks of its command.
C1_ExplicitFlagWins ==
    \A t \in StagesOf({"applyEnvToCmd", "PersistentPreRun", "Run"}) :
        \A flag \in EnvBound(cmds[trace[t].cmd]) :
            \A a \in DOMAIN args.flags :
                (/\ args.flags[a].cmd = trace[t].cmd
                 /\ args.flags[a].name = flag.name
                 /\ flag.env[1] \in DOMAIN environ)
                    => trace[t].cfg[flag.name] = ParsesAs(flag.type, args.flags[a].value).text

\* C2: with the environment features on (Environment, the default), in the
\* user's hooks of a command a parameter with an env name that the command line
\* does not give holds the parsed value of its variable when the variable is
\* set and parses, and its default when the variable is not set.
C2_EnvThenDefault ==
    Environment => \A t \in StagesOf({"PersistentPreRun", "Run"}) :
        \A flag \in EnvBound(cmds[trace[t].cmd]) :
            ~GivenOnCommandLine(trace[t].cmd, flag.name) =>
                IF flag.env[1] \in DOMAIN environ
                THEN ParsesAs(flag.type, environ[flag.env[1]]).ok =>
                         trace[t].cfg[flag.name] = ParsesAs(flag.type, environ[flag.env[1]]).text
                ELSE trace[t].cfg[flag.name] = flag.defValue

C2_Witness ==
    /\ pc.step = "done"
    /\ args.leaf = 2
    /\ DOMAIN environ = {"NICECMD_TEST_SUB_BAR", "NICECMD_TEST_FOO"}
    /\ environ["NICECMD_TEST_SUB_BAR"] = "07"
    /\ environ["NICECMD_TEST_FOO"] = ""
    /\ args.flags = << >>
    /\ \E t \in StagesOf({"Run"}) :
           /\ trace[t].cmd = 2
           /\ trace[t].cfg["bar"] = "7"
           /\ trace[t].cfg["debug"] = "false"
    /\ \E t \in StagesOf({"PersistentPreRun"}) :
           /\ trace[t].cmd = 1
           /\ trace[t].cfg["foo"] = ""
           /\ trace[t].cfg["bar"] = "3"

\* the variables with the root's prefix that are the env name of no flag of a
\* command on the executed path
UnboundOnPath ==
    {name \in DOMAIN environ :
        /\ HasPrefix(name, cmds[1].annEnv)
        /\ \A i \in 1..args.leaf : \A flag \in EnvBound(cmds[i]) : flag.env[1] # name}

\* C3: checkEnv returns ErrUnboundEnvironment exactly when --env-lax is not given
\* and some variable with the root's prefix is the env name of no flag on the
\* executed path; Names are those variables, each once, in ascending order.
C3_UnboundAudit ==
    \A t \in StagesOf({"checkEnv"}) :
        LET result == trace[t].err
        IN  /\ result.kind = "ErrUnboundEnvironment" <=>
                   ~GivenOnCommandLine(1, "env-lax") /\ UnboundOnPath # {}
            /\ result.kind # "ErrUnboundEnvironment" => result = NoError
            /\ result.kind = "ErrUnboundEnvironment" =>
                   /\ {result.Names[i] : i \in DOMAIN result.Names} = UnboundOnPath
                   /\ \A i \in DOMAIN result.Names : \A j \in DOMAIN result.Names :
                          i < j => StrLess(result.Names[i], result.Names[j])

C3_Witness ==
    /\ args.leaf = 1
    /\ ~GivenOnCommandLine(1, "env-lax")
    /\ \E t \in StagesOf({"checkEnv"}) :
           /\ trace[t].err.kind = "ErrUnboundEnvironment"
           /\ trace[t].err.Names = <<"NICECMD_TEST_SUB_BAR", "NICECMD_TEST_UNBOUND">>

\* the local flags of the command whose variable is set to a text that does not
\* parse
FailingFlags(cmd) ==
    {flag \in {LocalFlags(cmd)[k] : k \in DOMAIN LocalFlags(cmd)} :
        /\ flag.env # << >>
        /\ flag.env[1] \in DOMAIN environ
        /\ ~ParsesAs(flag.type, environ[flag.env[1]]).ok}

\* C4: applyEnvToCmd returns ErrInvalidEnvironment exactly when the variable of
\* some local flag fails to parse, with one FlagError for each such flag; the
\* flags whose variables parse are applied all the same.
C4_AllFlagsAttempted ==
    \A t \in StagesOf({"applyEnvToCmd"}) :
        LET result  == trace[t].err
            failing == FailingFlags(cmds[trace[t].cmd])
        IN  /\ result.kind = "ErrInvalidEnvironment" <=> failing # {}
            /\ failing = {} => result = NoError
            /\ failing # {} =>
                   /\ Len(result.FlagErrors) = Cardinality(failing)
                   /\ {result.FlagErrors[i].Flag : i \in DOMAIN result.FlagErrors}
                          = {flag.name : flag \in failing}
                   /\ \A i \in DOMAIN result.FlagErrors : result.FlagErrors[i].Error # ""
            /\ \A flag \in EnvBound(cmds[trace[t].cmd]) :
                   (flag.env[1] \in DOMAIN environ /\ flag \notin failing) =>
                       trace[t].cfg[flag.name] = ParsesAs(flag.type, environ[flag.env[1]]).text

C4_Witness ==
    /\ DOMAIN environ = {"NICECMD_TEST_SUB_BAR", "NICECMD_TEST_SUB_DEBUG"}
    /\ environ["NICECMD_TEST_SUB_BAR"] = "x"
    /\ environ["NICECMD_TEST_SUB_DEBUG"] = "true"
    /\ \E t \in StagesOf({"applyEnvToCmd"}) :
           /\ trace[t].cmd = 2
           /\ trace[t].err.kind = "ErrInvalidEnvironment"
           /\ Len(trace[t].err.FlagErrors) = 1
           /\ trace[t].err.FlagErrors[1].Flag = "bar"
           /\ trace[t].cfg["debug"] = "true"

(***************************************************************************)
(* C15, C16, C18, C20: what one execution does with the environment.       *)
(***************************************************************************)
\* C15: in one execution applyEnvToFlag calls the setter of a flag at most
\* once, whichever of the env hooks of the commands on the path, the help
\* function and the usage function visit the flag, and however often.
C15_AppliedOnce ==
    \A i \in DOMAIN cmds :
        \A flag \in AllFlags(cmds[i]) :
            /\ flag.envSets <= 1
            /\ flag.envSets = 1 => flag.processed

C15_Witness ==
    /\ pc.step = "done"
    /\ \E t \in StagesOf({"applyEnvToCmd"}) :
           /\ trace[t].cmd = 2
           /\ \E u \in StagesOf({"usage"}) : t < u
    /\ \E flag \in AllFlags(cmds[2]) :
           /\ flag.name = "bar"
           /\ flag.env = <<"NICECMD_TEST_SUB_BAR">>
           /\ flag.envSets = 1

\* whether the command line gives the root's flag with the value
GivenWith(name, value) ==
    \E a \in DOMAIN args.flags :
        /\ args.flags[a].cmd = 1
        /\ args.flags[a].name = name
        /\ args.flags[a].value = value

\* C16: applyDotEnv runs before checkEnv, before every applyEnvToCmd and before
\* help or usage are shown; it calls godotenv.Overload when --env-file and
\* --env-overwrite are given, godotenv.Load when only --env-file is, and no
\* loader without --env-file; a variable that the loaded file defines is what
\* the env hooks of the root and of the sub-command look up and apply: the
\* file's value when it overwrites or the variable was unset, else the value
\* the variable had.
C16_DotEnvFirst ==
    /\ \A t \in StagesOf({"checkEnv", "applyEnvToCmd"}) :
           \E d \in StagesOf({"applyDotEnv"}) : d < t
    /\ \A d \in StagesOf({"applyDotEnv"}) :
           /\ \A u \in 1..(d - 1) : trace[u].step = "ParseFlags"
           /\ trace[d].call =
                  IF ~GivenOnCommandLine(1, "env-file") THEN ""
                  ELSE IF GivenWith("env-overwrite", "true") THEN "Overload"
                  ELSE "Load"
           /\ ~GivenOnCommandLine(1, "env-file") => environ = trace[d].env
           /\ GivenWith("env-file", ".env") =>
                  \A t \in StagesOf({"applyEnvToCmd"}) :
                      \A flag \in EnvBound(cmds[trace[t].cmd]) :
                          LET name  == flag.env[1]
                              file  == DotEnvFiles[".env"]
                              value == IF GivenWith("env-overwrite", "true")
                                          \/ name \notin DOMAIN trace[d].env
                                       THEN file[name]
                                       ELSE trace[d].env[name]
                          IN  name \in DOMAIN file =>
                                  /\ name \in DOMAIN trace[t].env
                                  /\ trace[t].env[name] = value
                                  /\ ParsesAs(flag.type, value).ok =>
                                         trace[t].cfg[flag.name] = ParsesAs(flag.type, value).text

C16_Witness ==
    /\ args.leaf = 2
    /\ GivenWith("env-file", ".env")
    /\ ~GivenOnCommandLine(1, "env-overwrite")
    /\ \E d \in StagesOf({"applyDotEnv"}) :
           /\ trace[d].call = "Load"
           /\ DOMAIN trace[d].env = {"HOME"}
    /\ \E t \in StagesOf({"PersistentPreRun"}) :
           trace[t].cmd = 1 /\ trace[t].cfg["foo"] = "foo"
    /\ \E t \in StagesOf({"Run"}) :
           trace[t].cmd = 2 /\ trace[t].cfg["bar"] = "7"

\* the flags of the command that are bound to fields of its config
ConfigFlags(cmd) == {flag \in AllFlags(cmd) : flag.path # << >>}

\* C18: with Environment false when the commands are constructed, no command
\* has the flags env-file, env-overwrite and env-lax, no execution runs
\* applyDotEnv, checkEnv or applyEnvToCmd or changes the environment, no flag
\* is ever set from a variable, and in the user's hooks every parameter that
\* the command line does not give holds its default.
C18_EnvironmentOff ==
    ~Environment =>
        /\ \A i \in DOMAIN cmds :
               \A flag \in AllFlags(cmds[i]) :
                   /\ flag.name \notin {"env-file", "env-overwrite", "env-lax"}
                   /\ flag.envSets = 0
        /\ StagesOf({"applyDotEnv", "checkEnv", "applyEnvToCmd"}) = {}
        /\ \A t \in DOMAIN trace : trace[t].env = environ
        /\ \A t \in StagesOf({"PersistentPreRun", "Run"}) :
               \A flag \in ConfigFlags(cmds[trace[t].cmd]) :
                   ~GivenOnCommandLine(trace[t].cmd, flag.name) =>
                       trace[t].cfg[flag.name] = flag.defValue

C18_Witness ==
    /\ ~Environment
    /\ DOMAIN environ = {"NICECMD_TEST_FOO"}
    /\ environ["NICECMD_TEST_FOO"] = "env"
    /\ args.flags = << >>
    /\ \E t \in StagesOf({"Run"}) :
           trace[t].cmd = 1 /\ trace[t].cfg["foo"] = "dflt"

\* whether the variable of the flag is set to a text that parses
SetAndParses(flag) ==
    /\ flag.env # << >>
    /\ flag.env[1] \in DOMAIN environ
    /\ ParsesAs(flag.type, environ[flag.env[1]]).ok

\* C20, the required-parameter check: the check of the leaf command passes
\* exactly when each of its required flags is given on the command line or has
\* a variable that is set and parses; a required flag with only a variable
\* that does not parse is never marked as changed.
C20_RequiredCheck ==
    /\ \A t \in StagesOf({"ValidateRequiredFlags"}) :
           trace[t].err = NoError <=>
               \A flag \in ConfigFlags(cmds[trace[t].cmd]) :
                   flag.required =>
                       \/ GivenOnCommandLine(trace[t].cmd, flag.name)
                       \/ Environment /\ SetAndParses(flag)
    /\ \A i \in DOMAIN cmds :
           \A flag \in ConfigFlags(cmds[i]) :
               (/\ flag.required
                /\ ~GivenOnCommandLine(i, flag.name)
                /\ flag.env # << >>
                /\ flag.env[1] \in DOMAIN environ
                /\ ~SetAndParses(flag))
                   => ~flag.changed

\* C20, the marker: an env hook leaves each local flag of its command marked as
\* changed exactly when the flag's variable is set and parses or the flag was
\* marked before.
C20_MarksChanged ==
    ApplyEnvToCmdHook =>
        \A k \in DOMAIN LocalFlags(cmds[pc.cmd]) :
            LocalFlags(cmds'[pc.cmd])[k].changed =
                (SetAndParses(LocalFlags(cmds[pc.cmd])[k])
                    \/ LocalFlags(cmds[pc.cmd])[k].changed)

\* C20: applyEnvToFlag marks a flag as changed if and only if its variable is
\* set and the value was applied without an error, and leaves the marker as it
\* was otherwise; so a required parameter given only by a variable that parses
\* passes the required-parameter check and one given by a variable that does
\* not parse does not.
C20_ChangedIffApplied == []C20_RequiredCheck /\ [][C20_MarksChanged]_vars

C20_Witness ==
    /\ ~GivenOnCommandLine(2, "bar")
    /\ "NICECMD_TEST_SUB_BAR" \in DOMAIN environ
    /\ environ["NICECMD_TEST_SUB_BAR"] = "07"
    /\ \E t \in StagesOf({"ValidateRequiredFlags"}) :
           trace[t].cmd = 2 /\ trace[t].err = NoError
    /\ \E flag \in ConfigFlags(cmds[2]) :
           flag.name = "bar" /\ flag.required /\ flag.changed /\ flag.value = "7"

(***************************************************************************)
(* Command trees: RootCommand and SubCommand calls that build one path of  *)
(* a command tree, the root first. cmds is the path built so far and trace *)
(* records the arguments of every call.                                    *)
(***************************************************************************)
(* C27: what the printenv command of a command lists.                      *)
(***************************************************************************)
\* the flags visible on command i that have an environment binding: its own
\* flags, then the persistent flags it inherits
Listed(i) ==
    LET bound(flag) == flag.env # << >>
    IN  SelectSeq(LocalFlags(cmds[i]) \o parentsPflags(cmds, i), bound)

MaxDepth == 3

\* type trivialConf struct { Foo string; Bar int }
trivialConf ==
    << Field("Foo", "string", "", << >>), Field("Bar", "int", "", << >>) >>

\* a config whose fields are declared in another order than that of their names,
\* with a nested struct between them and persistent fields among the local ones
OrderConfig ==
    << Field("Zeta", "string", "", << >>),
       Field("Omega", "bool", "persistent", << >>),
       Field("Nested", "struct", "",
             << Field("Mid", "string", "", << >>),
                Field("Beta", "string", "persistent", << >>) >>),
       Field("Bar", "int", "", << >>) >>

TreeConfigs == {trivialConf, OrderConfig}

\* the Use line and the prefix given with WithEnvPrefix ("" for a call without
\* the option) of the calls that build a command at depth d of the tree
TreeCalls(d) ==
    IF d = 1
    THEN {<<"root", "">>, <<"nicecmd-test", "">>, <<"nicecmd-test", "NICECMD_CUSTOM">>}
    ELSE {<<"sub" \o Itoa(d - 1), "">>, <<"my-leaf [flags]", "">>,
          <<"my-leaf [flags]", "LEAF">>}

\* what trace records of a RootCommand or SubCommand call
Built(step, use, userPrefix, cfg, environment) ==
    [step |-> step, use |-> use, userPrefix |-> userPrefix, cfg |-> cfg,
     environment |-> environment]

TreeInit ==
    /\ SlugIdle
    /\ typeRegs = NoRegs
    /\ regLast = << >>
    /\ regOps = 0
    /\ config = << >>
    /\ bindPrefix = ""
    /\ command = NewCommand
    /\ bindPc = "idle"
    /\ Environment = TRUE
    /\ cmds = << >>
    /\ environ = << >>
    /\ args = [leaf |-> 0, flags |-> << >>, help |-> FALSE, printenv |-> FALSE]
    /\ pc = [step |-> "build", cmd |-> 0, k |-> 0]
    /\ err = NoError
    /\ trace = << >>

\* nicecmd.Environment = false, or the assignment that restores it
SetEnvironment ==
    /\ pc.step = "build"
    /\ Environment' = ~Environment
    /\ UNCHANGED <<typeRegs, regLast, regOps, config, bindPrefix, command, bindPc>>
    /\ UNCHANGED slugVars
    /\ UNCHANGED execVars

\* rootCmd := RootCommand(hooks, cobra.Command{Use: use}, cfg, opts...)
RootCommandCall ==
    /\ pc.step = "build"
    /\ cmds = << >>
    /\ \E call \in TreeCalls(1), cfg \in TreeConfigs :
           /\ cmds' = <<RootCommand(call[1], cfg, call[2], TRUE, typeRegs, Environment)>>
           /\ trace' = <<Built("RootCommand", call[1], call[2], cfg, Environment)>>
    /\ UNCHANGED <<environ, args, pc, err>>
    /\ UNCHANGED bindVars
    /\ UNCHANGED slugVars

\* nextCmd = SubCommand(nextCmd, hooks, cobra.Command{Use: use}, cfg, opts...)
SubCommandCall ==
    /\ pc.step = "build"
    /\ cmds # << >>
    /\ Len(cmds) < MaxDepth
    /\ \E call \in TreeCalls(Len(cmds) + 1), cfg \in TreeConfigs :
           /\ cmds' = Append(cmds, SubCommand(cmds, call[1], cfg, call[2], TRUE, typeRegs,
                                              Environment))
           /\ trace' = Append(trace, Built("SubCommand", call[1], call[2], cfg, Environment))
    /\ UNCHANGED <<environ, args, pc, err>>
    /\ UNCHANGED bindVars
    /\ UNCHANGED slugVars

TreeNext == SetEnvironment \/ RootCommandCall \/ SubCommandCall

SpecTree == TreeInit /\ [][TreeNext]_vars

(***************************************************************************)
(* C17: the env prefix of a sub-command.                                   *)
(***************************************************************************)
RECURSIVE PathPrefix(_)
\* the prefix the command path down to command i stands for: the prefix given
\* with WithEnvPrefix where one was given, otherwise the parent's prefix and the
\* screaming snake case of the command's name, joined by "_"
PathPrefix(i) ==
    IF trace[i].userPrefix # "" THEN trace[i].userPrefix
    ELSE IF i = 1 THEN screamingSnake(Name(cmds[1]))
    ELSE PathPrefix(i - 1) \o "_" \o screamingSnake(Name(cmds[i]))

\* the env names of the flag that the command binds to the top-level field name
EnvOfField(cmd, cfg, name) ==
    {flag.env : flag \in {f \in AllFlags(cmd) :
                             Len(f.path) = 1 /\ cfg[f.path[1]].name = name}}

\* whether commands 1..i are root, sub1, sub2, ... built without WithEnvPrefix,
\* but for the root when rootPrefix is not ""
PlainPath(i, rootUse, rootPrefix) ==
    /\ Len(cmds) >= i
    /\ trace[1].use = rootUse
    /\ trace[1].userPrefix = rootPrefix
    /\ \A j \in 1..i : trace[j].environment
    /\ \A j \in 2..i : trace[j].use = "sub" \o Itoa(j - 1) /\ trace[j].userPrefix = ""

\* C17: a sub-command built without WithEnvPrefix under a parent that stores a
\* prefix stores that prefix followed by the screaming snake case of its own
\* name (and "_"); along a path built with the environment features on this is
\* the prefix of the path, which starts at the root's custom prefix where one
\* was given, so that Bar of root -> sub1 -> sub2 is bound to ROOT_SUB1_SUB2_BAR;
\* a command built with WithEnvPrefix stores the given prefix instead; every
\* top-level parameter of a command is bound to the stored prefix and its name.
C17_SubCommandPrefix ==
    /\ \A i \in 2..Len(cmds) :
           /\ (trace[i].userPrefix = "" /\ trace[i].environment /\ cmds[i - 1].annEnv # "")
                  => cmds[i].annEnv = cmds[i - 1].annEnv \o screamingSnake(Name(cmds[i])) \o "_"
           /\ (\A j \in 1..i : trace[j].environment)
                  => cmds[i].annEnv = PathPrefix(i) \o "_"
    /\ \A i \in 1..Len(cmds) :
           /\ trace[i].userPrefix # "" => cmds[i].annEnv = trace[i].userPrefix \o "_"
           /\ cmds[i].panic = ""
           /\ cmds[i].annEnv # "" =>
                  \A k \in DOMAIN trace[i].cfg :
                      trace[i].cfg[k].type # "struct" =>
                          EnvOfField(cmds[i], trace[i].cfg, trace[i].cfg[k].name)
                              = {<<cmds[i].annEnv \o screamingSnake(trace[i].cfg[k].name)>>}
    /\ (PlainPath(3, "root", "") /\ trace[3].cfg = trivialConf)
           => EnvOfField(cmds[3], trivialConf, "Bar") = {<<"ROOT_SUB1_SUB2_BAR">>}

C17_Witness ==
    /\ PlainPath(3, "nicecmd-test", "NICECMD_CUSTOM")
    /\ trace[3].cfg = trivialConf
    /\ cmds[2].annEnv = "NICECMD_CUSTOM_SUB1_"
    /\ EnvOfField(cmds[3], trivialConf, "Bar") = {<<"NICECMD_CUSTOM_SUB1_SUB2_BAR">>}

(***************************************************************************)
(* C19: the order of the parameters of a command.                          *)
(***************************************************************************)
\* whether path a comes before path b when the fields of the config are gone
\* through as declared, a nested struct at the position of its field
DeclaredBefore(a, b) ==
    \E k \in 1..Len(a) :
        /\ k <= Len(b)
        /\ \A j \in 1..(k - 1) : a[j] = b[j]
        /\ a[k] < b[k]

\* the flags bound to config fields among the flags of a partition, in the order
\* in which the partition is gone through
Parameters(cmd, partition) ==
    SelectSeq(VisitAllOrder(partition, cmd.sortFlags), LAMBDA flag : flag.path # << >>)

\* the names of the flags in the order of the sequence
FlagNames(flags) == [k \in DOMAIN flags |-> flags[k].name]

\* C19: in the local and in the persistent flag partition of every command built
\* by RootCommand or SubCommand, the parameters are gone through in the order
\* in which their fields are declared, the fields of a nested struct at the
\* position of the struct's field, and the two partitions hold exactly the
\* non-struct fields of the config; the order is not that of the names.
C19_DeclarationOrder ==
    \A i \in DOMAIN cmds :
        /\ \A partition \in {cmds[i].flags, cmds[i].pflags} :
               LET shown == Parameters(cmds[i], partition)
               IN  \A a, b \in DOMAIN shown :
                       a < b => DeclaredBefore(shown[a].path, shown[b].path)
        /\ {flag.path : flag \in {f \in AllFlags(cmds[i]) : f.path # << >>}}
               = LeafPaths(trace[i].cfg)
        /\ Len(Parameters(cmds[i], cmds[i].flags)) + Len(Parameters(cmds[i], cmds[i].pflags))
               = Cardinality(LeafPaths(trace[i].cfg))

C19_Witness ==
    /\ Len(cmds) = 2
    /\ trace[1].cfg = OrderConfig
    /\ trace[2].cfg = OrderConfig
    /\ FlagNames(Parameters(cmds[1], cmds[1].flags)) = <<"zeta", "nested-mid", "bar">>
    /\ FlagNames(Parameters(cmds[2], cmds[2].flags)) = <<"zeta", "nested-mid", "bar">>
    /\ FlagNames(Parameters(cmds[2], cmds[2].pflags)) = <<"omega", "nested-beta">>
    /\ FlagNames(cmds[1].pflags)
           = <<"env-file", "env-overwrite", "env-lax", "omega", "nested-beta">>

(***************************************************************************)
(* C21 and C22: the order of the stages of the hook chain and its errors.  *)
(***************************************************************************)
\* C21 as stated: when the audit runs, the env hooks of all commands on the
\* executed path have run before it.
C21_ResolveBeforeAudit ==
    \A t \in StagesOf({"checkEnv"}) :
        \A c \in 1..args.leaf :
            \E u \in StagesOf({"applyEnvToCmd"}) : u < t /\ trace[u].cmd = c

\* C21 as the code has it: the audit runs once, in the chain of the root, and
\* every env hook (of the root and of the sub-command) runs after the audit
\* returned without error.
C21_AuditBeforeResolve ==
    /\ Cardinality(StagesOf({"checkEnv"})) <= 1
    /\ \A t \in StagesOf({"checkEnv"}) : trace[t].cmd = 1
    /\ \A t \in StagesOf({"applyEnvToCmd"}) :
           \E u \in StagesOf({"checkEnv"}) : u < t /\ trace[u].err = NoError

C21_Witness ==
    /\ args.leaf = 2
    /\ "NICECMD_TEST_SUB_BAR" \in DOMAIN environ
    /\ \E t, u, v \in DOMAIN trace :
           /\ t < u /\ u < v
           /\ trace[t].step = "checkEnv"
           /\ trace[u].step = "applyEnvToCmd" /\ trace[u].cmd = 1
           /\ trace[v].step = "applyEnvToCmd" /\ trace[v].cmd = 2

\* the stages of the hook chains that can fail
FallibleStages == StagesOf({"applyDotEnv", "checkEnv", "applyEnvToCmd"})

\* C22: a user hook runs only after every earlier stage returned without error;
\* after a failed dotenv load, a failed audit or a failed env hook no hook runs
\* any more (only the usage is shown) and Execute returns the error of the stage.
C22_ErrorsStopChain ==
    /\ \A t \in StagesOf({"PersistentPreRun", "Run"}) :
           \A u \in 1..(t - 1) : trace[u].err = NoError
    /\ \A u \in FallibleStages :
           trace[u].err # NoError =>
               /\ err = trace[u].err
               /\ \A t \in DOMAIN trace : t > u => trace[t].step = "usage"

C22_Witness ==
    /\ args.leaf = 2
    /\ pc.step = "done"
    /\ err.kind = "ErrInvalidEnvironment"
    /\ \E u \in StagesOf({"applyEnvToCmd"}) : trace[u].cmd = 1 /\ trace[u].err = err
    /\ \A t \in DOMAIN trace : trace[t].step \notin {"PersistentPreRun", "Run"}
    /\ \A t \in DOMAIN trace : trace[t].cmd = 2 => trace[t].step \in {"ParseFlags", "usage"}

(***************************************************************************)
(* Binding of fields with an encoding tag: BindConfig applied to configs   *)
(* with one byte slice, int or string slice field, at the top, after       *)
(* another field, or inside a struct.                                      *)
(***************************************************************************)
\* the types whose case of the type switch looks at the encoding
EncodedTypes == {"[]byte", "int", "[]string"}

\* the encoding tags: none, the five the package knows and an unknown one
AllEncodings ==
    {"", encodingBase64, encodingCSV, encodingCount, encodingHex, encodingRaw, "bogus"}

EncodedLeaves ==
    {Tagged(name, type, "", "", env, encoding, << >>) :
        name \in {"Key", "FooBar"}, type \in EncodedTypes, env \in {"", "-"},
        encoding \in AllEncodings}

EncodedConfigs ==
    {<<leaf>> : leaf \in EncodedLeaves}
    \cup {<<Field("Name", "string", "", << >>), leaf>> : leaf \in EncodedLeaves}
    \cup {<<Field("Outer", "struct", "", <<leaf>>)>> : leaf \in EncodedLeaves}

EncodedInit ==
    /\ SlugIdle
    /\ ExecIdle
    /\ typeRegs = NoRegs
    /\ regLast = << >>
    /\ regOps = 0
    /\ config \in EncodedConfigs
    /\ bindPrefix \in {"", "TEST"}
    /\ command = NewCommand
    /\ bindPc = "setup"
    /\ Environment = TRUE

EncodedNext == BindConfigCall

SpecEncoded == EncodedInit /\ [][EncodedNext]_vars

(***************************************************************************)
(* C23: the encodings a type accepts.                                      *)
(***************************************************************************)
\* the encodings with which a field of the type is accepted
AllowedEncodings(type) ==
    CASE type = "[]byte" -> {encodingHex, encodingBase64}
      [] type = "int" -> {"", encodingCount}
      [] type = "[]string" -> {"", encodingCSV, encodingRaw}

\* what the message expects of a field of the type
Expectation(type) ==
    CASE type = "[]byte" -> "encoding:\"base64\" or encoding:\"hex\" for bytes slice"
      [] type = "int" -> "no encoding or encoding:\"count\" for int"
      [] type = "[]string" -> "encoding:\"csv\" or encoding:\"raw\" for string slice"

\* the parameter name of the field at the path, no field on the way having a
\* param tag
SluggedName(struct_, path) ==
    LET fields == PathFields(struct_, path)
    IN  JoinWith([k \in DOMAIN fields |-> slug(fields[k].name, "-")], "-")

\* C23: a byte slice, int or string slice field whose encoding is not among
\* those its type accepts (hex, base64; none, count; none, csv, raw) aborts
\* the binding with the message that names the parameter of the field and the
\* encoding, and no flag is registered for it; with an accepted encoding the
\* binding does not abort over the encoding, and the field is bound unless it is
\* a count or raw field with an env name.
C23_EncodingValidated ==
    bindPc = "bound" =>
        \A path \in LeafPaths(config) :
            LET field == FieldAt(config, path)
                flags == {flag \in AllFlags(command) : flag.path = path}
            IN  field.type \in EncodedTypes =>
                    IF field.encoding \in AllowedEncodings(field.type)
                    THEN /\ ~HasPrefix(command.panic, "expected")
                         /\ (field.encoding \notin {encodingCount, encodingRaw}
                             \/ field.env = "-" \/ bindPrefix = "")
                                => /\ command.panic = ""
                                   /\ \E flag \in flags : flag.encoding = field.encoding
                    ELSE /\ command.panic =
                                "expected " \o Expectation(field.type) \o " \""
                                    \o SluggedName(config, path) \o "\", got encoding \""
                                    \o field.encoding \o "\""
                         /\ flags = {}

C23_Witness ==
    /\ bindPc = "bound"
    /\ config = <<Field("Outer", "struct", "", <<Tagged("Key", "[]byte", "", "", "", "", << >>)>>)>>
    /\ bindPrefix = "TEST"
    /\ command.panic =
           "expected encoding:\"base64\" or encoding:\"hex\" for bytes slice \"outer-key\", got encoding \"\""
    /\ AllFlags(command) = {}

(***************************************************************************)
(* C24: fields that no strategy binds.                                     *)
(***************************************************************************)
\* the reached fields of the config that match no strategy under the registry
Unsupported(struct_, regs) ==
    {path \in ReachedPaths(struct_, regs) :
        /\ FieldAt(struct_, path).type \notin BuiltinTypes
        /\ FirstMatch(FieldAt(struct_, path), regs) = "none"}

\* C24: a field that matches no strategy (a named type without any capability
\* that is not registered, a struct without fields) aborts the binding with
\* "unsupported field type" and the type of the pointer to the field, and no
\* flag is registered for the field; the binding aborts in this way for no
\* other field.
C24_UnsupportedFieldType ==
    bindPc \in {"bound", "set"} =>
        /\ \A path \in Unsupported(config, typeRegs) :
               /\ command.panic = "unsupported field type *" \o FieldAt(config, path).type
               /\ \A flag \in AllFlags(command) : flag.path # path
        /\ HasPrefix(command.panic, "unsupported field type")
               => Unsupported(config, typeRegs) # {}
        /\ \A path \in ReachedPaths(config, typeRegs) :
               LET field == FieldAt(config, path)
               IN  ((field.type = "stringAlias" /\ "stringAlias" \notin DOMAIN typeRegs)
                    \/ (field.type = "struct" /\ field.sub = << >>))
                       => path \in Unsupported(config, typeRegs)

C24_Witness ==
    /\ bindPc = "bound"
    /\ config = <<Field("Foo", "stringAlias", "", << >>)>>
    /\ regLast["stringAlias"].op = "unregister"
    /\ regLast["string"].op = "register"
    /\ command.panic = "unsupported field type *stringAlias"
    /\ AllFlags(command) = {}

(***************************************************************************)
(* C29: a bound parameter keeps the pair that was registered when          *)
(* BindConfig ran.                                                         *)
(***************************************************************************)
\* the pair of each flag is the one the registry held when BindConfig returned
C29_PairOfBindTime ==
    bindPc = "bound" /\ command.panic = "" =>
        \A flag \in AllFlags(command) :
            flag.strategy = "custom" => flag.parser = typeRegs[flag.type].Parser

\* a call of the registry after BindConfig changes no flag and no field
C29_RegistryLeavesBound ==
    bindPc # "setup" /\ typeRegs' # typeRegs => command' = command

\* Set of a bound flag after BindConfig: a flag of a registered type holds what
\* the parse function of its pair returns, whatever the registry holds by
\* then, and is left as it was when that function returns an error
C29_SetUsesPair ==
    bindPc \in {"bound", "late"} /\ bindPc' \in {"set", "lateSet"} =>
        \A k \in DOMAIN LocalFlags(command) :
            LET old == LocalFlags(command)[k]
                new == LocalFlags(command')[k]
            IN  old.strategy = "custom" =>
                    /\ new.parser = old.parser
                    /\ typeWrapString(new) = applySerializer(old.parser, new.value)
                    /\ IF parserError(old.parser, "foo") # "" THEN new = old
                       ELSE \/ new = old
                            \/ /\ new.value = applyParser(old.parser, "foo")
                               /\ new.changed

\* C29: a parameter bound to a registered type keeps the parse and serialize
\* pair registered when BindConfig ran: a later RegisterType or UnregisterType
\* for the type changes neither how the parameter parses and serializes nor
\* the value of any bound field, and when the parse function returns an error
\* Set fails and leaves the field as it was
C29_BoundPairKept ==
    []C29_PairOfBindTime /\ [][C29_RegistryLeavesBound /\ C29_SetUsesPair]_vars

\* Foo stringAlias was bound while the pair with the + "-cust" parser was
\* registered, the plain pair was registered for the type afterwards, and Set
\* still ran the first parser
C29_Witness ==
    /\ bindPc = "lateSet"
    /\ config = <<Field("Foo", "stringAlias", "", << >>)>>
    /\ typeRegs["stringAlias"].Parser = "plain"
    /\ command.flags[1].parser = "cust"
    /\ command.flags[1].value = "foo-cust"
    /\ command.flags[1].changed

(***************************************************************************)
(* C25: the env names below a struct field with an env tag.                *)
(***************************************************************************)
\* the env annotation of the flag bound to the leaf at the path
EnvAt(path) == {flag.env : flag \in {f \in AllFlags(command) : f.path = path}}

\* the leaves that lie below a struct field, with the fields on the way to them
NestedLeafPaths == {path \in LeafPaths(config) : Len(path) >= 2}

\* C25 as stated: a leaf anywhere below a struct field with env:"-" is bound to
\* no variable unless the leaf itself has an explicit env name, and the leaves
\* directly below a struct field with the explicit env name E that have no env
\* tag are bound to E_ and the screaming snake case of their name.
C25_SuppressedBelowStruct ==
    (bindPc = "bound" /\ command.panic = "") =>
        \A path \in NestedLeafPaths :
            LET fields == PathFields(config, path)
                leaf   == fields[Len(path)]
                parent == fields[Len(path) - 1]
            IN  /\ (\E k \in 1..(Len(path) - 1) : fields[k].env = "-") =>
                       EnvAt(path) = {IF leaf.env \in {"", "-"} THEN << >> ELSE <<leaf.env>>}
                /\ (parent.env \notin {"", "-"} /\ leaf.env = "") =>
                       EnvAt(path) = {<<parent.env \o "_" \o screamingSnake(leaf.name)>>}

\* C25 as the code has it: the struct field directly above a leaf decides. A
\* leaf without env tag directly below a struct field with env:"-" is bound to
\* no variable, whatever the prefix of the command; directly below a struct
\* field with the explicit name E it is bound to E_ and the screaming snake case
\* of its name; a leaf with an explicit env name is bound to that name. So a
\* leaf below a struct field with env:"-" is bound to no variable unless it, or
\* a struct field between the two, has an explicit env name.
C25_NearestStructDecides ==
    (bindPc = "bound" /\ command.panic = "") =>
        \A path \in NestedLeafPaths :
            LET fields == PathFields(config, path)
                leaf   == fields[Len(path)]
                parent == fields[Len(path) - 1]
            IN  /\ leaf.env = "-" => EnvAt(path) = {<< >>}
                /\ leaf.env \notin {"", "-"} => EnvAt(path) = {<<leaf.env>>}
                /\ (leaf.env = "" /\ parent.env = "-") => EnvAt(path) = {<< >>}
                /\ (leaf.env = "" /\ parent.env \notin {"", "-"}) =>
                       EnvAt(path) = {<<parent.env \o "_" \o screamingSnake(leaf.name)>>}
                /\ \A k \in 1..(Len(path) - 1) :
                       (/\ fields[k].env = "-"
                        /\ \A j \in (k + 1)..Len(path) : fields[j].env \in {"", "-"})
                           => EnvAt(path) = {<< >>}

C25_Witness ==
    /\ bindPc = "bound"
    /\ bindPrefix = "TEST"
    /\ config = <<Tagged("Outer", "struct", "", "", "-", "",
                         <<Tagged("Mid", "struct", "", "", "MID", "",
                                  <<Tagged("Foo", "string", "", "", "", "", << >>)>>)>>)>>
    /\ EnvAt(<<1, 1, 1>>) = {<<"MID_FOO">>}

(***************************************************************************)
(* C26: a parameter writes to its own field.  The value of a flag is the   *)
(* storage of the config field at the flag's path: pflag's values wrap the *)
(* pointer to the field that recurseStruct hands them.                     *)
(***************************************************************************)
\* the configs that the commands of the execution were built with
CfgOf(i) == IF i = 1 THEN RootCfg ELSE SubCfg

\* whether the step about to be taken parses the flag's value off the command line
WrittenByFlag(i, flag) == pc.step = "parse" /\ GivenOnCommandLine(i, flag.name)

\* whether the step about to be taken is one in which applyEnvToFlag visits the
\* flag of command i for the first time with its variable set: the env hook of
\* the command, or the help or usage of a command that shows the flag
WrittenByEnv(i, flag) ==
    /\ flag.env # << >>
    /\ flag.env[1] \in DOMAIN environ
    /\ ~flag.processed
    /\ \/ AtHook("applyEnvToCmd") /\ pc.cmd = i
       \/ /\ \/ pc.step = "help" /\ cmds[1].helpFunc = "applyEnvToHelp"
             \/ pc.step = "usage" /\ cmds[1].usageFunc = "applyEnvToUsage"
          /\ i = pc.cmd \/ (i < pc.cmd /\ flag.persistent)

\* the flags of every command are bound to the non-struct fields of its config,
\* one flag per field, and the config a user hook is handed holds what the
\* parameters of its command have written
C26_Bound ==
    /\ \A i \in DOMAIN cmds :
           /\ {flag.path : flag \in ConfigFlags(cmds[i])} = LeafPaths(CfgOf(i))
           /\ \A f, g \in ConfigFlags(cmds[i]) : f.path = g.path => f.name = g.name
           /\ \A flag \in ConfigFlags(cmds[i]) :
                  flag.name = SluggedName(CfgOf(i), flag.path)
    /\ (trace # << >> /\ trace[Len(trace)].step \in {"PersistentPreRun", "Run"})
           => trace[Len(trace)].cfg = ConfigValues(cmds[trace[Len(trace)].cmd])

\* a step changes the field of a flag only when it sets that very parameter,
\* from the command line or from its variable
C26_Frame ==
    \A i \in DOMAIN cmds :
        \A k \in DOMAIN LocalFlags(cmds[i]) :
            LocalFlags(cmds'[i])[k].value # LocalFlags(cmds[i])[k].value
                => \/ WrittenByFlag(i, LocalFlags(cmds[i])[k])
                   \/ WrittenByEnv(i, LocalFlags(cmds[i])[k])

\* a step that sets a parameter from text that parses leaves the parsed value in
\* the field of the parameter
C26_Written ==
    \A i \in DOMAIN cmds :
        \A k \in DOMAIN LocalFlags(cmds[i]) :
            LET flag == LocalFlags(cmds[i])[k]
                now  == LocalFlags(cmds'[i])[k].value
            IN  flag.path # << >> =>
                    /\ (WrittenByFlag(i, flag) /\ err' = NoError) =>
                           \E a \in DOMAIN args.flags :
                               /\ args.flags[a].cmd = i
                               /\ args.flags[a].name = flag.name
                               /\ now = ParsesAs(flag.type, args.flags[a].value).text
                    /\ (WrittenByEnv(i, flag) /\ ParsesAs(flag.type, environ[flag.env[1]]).ok)
                           => now = ParsesAs(flag.type, environ[flag.env[1]]).text

MaxVisits == 2

\* struct { Foo T `flag:".." env:".." usage:".."` } for a string and an int
VisitConfigs ==
    {<<[Tagged("Foo", type, flagTag, "", env, "", << >>) EXCEPT !.usage = usage]>> :
        type \in {"string", "int"}, flagTag \in {"", "required"}, env \in {"", "-"},
        usage \in {"", "a value"}}

\* the environment: without the variable of Foo, with a value every type
\* parses, and with one an int does not parse
VisitEnvironments ==
    {<< >>} \cup {[name \in {"TEST_FOO"} |-> value] : value \in {"7", "x"}}

VisitInit ==
    /\ SlugIdle
    /\ typeRegs = NoRegs
    /\ regLast = << >>
    /\ regOps = 0
    /\ config \in VisitConfigs
    /\ bindPrefix = "TEST"
    /\ command = NewCommand
    /\ bindPc = "setup"
    /\ Environment = TRUE
    /\ cmds = << >>
    /\ environ \in VisitEnvironments
    /\ args = [leaf |-> 0, flags |-> << >>, help |-> FALSE, printenv |-> FALSE]
    /\ pc = [step |-> "idle", cmd |-> 0, k |-> 0]
    /\ err = NoError
    /\ trace = << >>

\* applyEnvToUsage (or applyEnvToHelp) of the bound command: the visit of its
\* flags before the usage is rendered; trace keeps the flags after each visit
RenderUsage ==
    /\ bindPc = "bound"
    /\ command.panic = ""
    /\ Len(trace) < MaxVisits
    /\ LET visited == visitAll(LocalFlags(command), environ, 1, << >>).flags
       IN  /\ command' = WithLocalFlags(command, visited)
           /\ trace' = Append(trace, [step |-> "usage", flags |-> visited])
    /\ UNCHANGED <<typeRegs, regLast, regOps, config, bindPrefix, bindPc, Environment>>
    /\ UNCHANGED <<cmds, environ, args, pc, err>>
    /\ UNCHANGED slugVars

VisitNext == BindConfigCall \/ RenderUsage

SpecVisit == VisitInit /\ [][VisitNext]_vars

(***************************************************************************)
(* C30: a second visit of a flag changes nothing.                          *)
(***************************************************************************)
\* C30: a visit of applyEnvToFlag after the first leaves every flag, with its
\* value, changed mark, usage text and annotations, as the first visit left
\* it, for flags with and without an environment binding, required or not
C30_SecondVisitIdempotent ==
    \A t \in 2..Len(trace) : trace[t].flags = trace[t - 1].flags

====
